---------------------------- MODULE Spec2Model ----------------------------
(***************************************************************************)
(* Models of the stand-alone teaching programs of the repository.  Each    *)
(* program is an independent executable, so each has its own variables,    *)
(* its own initial condition and its own specification; the variables of   *)
(* the programs that are not running stay at their idle values.            *)
(*                                                                         *)
(*   SpecSort        data-structures/beginner/sorting.c                    *)
(*   SpecSearch      data-structures/beginner/searching.c (binary_search)  *)
(*   SpecSearchFair  the same, every enabled loop iteration executed       *)
(*   SpecArr         exercises/intermediate/ex01_dynamic_array.c           *)
(*   SpecList        exercises/intermediate/ex02_linked_list.c             *)
(*   SpecListInsert  the same, insert_front and insert_end calls only      *)
(*                                                                         *)
(* C arrays are 0-indexed; a C array of n elements is a TLA+ sequence of   *)
(* length n and the C element a[i] is the sequence element a[i + 1].       *)
(***************************************************************************)
EXTENDS Integers, Sequences, FiniteSets, TLC

VARIABLES
    \* sorting.c
    input,      \* the array handed to the sort (elements tagged with their position)
    arr,        \* the array the sort works on
    oob,        \* TRUE once an index outside 0..size-1 was read or written
    algo,       \* "none" before the call, then the name of the sort that returned
    \* searching.c : binary_search
    bsArr,      \* the sorted array searched
    bsTarget,   \* the target
    left,       \* binary_search's local left
    right,      \* binary_search's local right
    bsPc,       \* "idle" | "loop" | "done"
    bsResult,   \* the value returned (meaningful once bsPc = "done")
    bsOob,      \* TRUE once arr[mid] was read outside 0..size-1
    \* ex01_dynamic_array.c : the DynamicArray made by create_array and its caller
    data,       \* arr->data: the allocated block, capacity ints (Uninit where never written)
    size,       \* arr->size
    capacity,   \* arr->capacity
    value,      \* the caller's int that get writes through its value pointer
    aop,        \* the last function called: "none" | "append" | "insert" | "delete" | "get"
    aret,       \* the bool it returned
    heapErr,    \* TRUE once an int outside the allocated block was read or written
    absSeq,     \* the abstract sequence the array stands for
    \* ex02_linked_list.c : main's list and the heap its nodes live in
    heap,       \* the allocated nodes: address |-> [data, next]
    head,       \* main's Node *head (NULL or an address)
    lop,        \* the last function called on the list
    larg,       \* its data argument (NULL when it takes none)
    lret,       \* the bool it returned (TRUE for the void functions)
    lfreed,     \* the nodes it freed
    lerr,       \* TRUE once a node that is not allocated was read, written or freed,
                \* or a loop over the list failed to end
    absList,    \* the abstract sequence the list stands for
    \* ex03_file_copy.c : main, copy_file and the two files they work on
    argc,       \* main's argc
    fpc,        \* where main (or the copy_file it called) stands
    fmode,      \* "none" until main has looked at argc, then "user" or "demo"
    fsrc,       \* the source file: [exists, bytes]
    fdst,       \* the destination file: [exists, bytes]
    srcOrig,    \* the bytes the source file held when copy_file was called
    dstOrig,    \* the destination file as it was when copy_file was called
    srcOpen,    \* copy_file's FILE *source is open
    dstOpen,    \* copy_file's FILE *dest is open
    rpos,       \* the read position of source
    rerr,       \* the error indicator of source (ferror)
    sizeKnown,  \* get_file_size(source) returned a size >= 0
    cres,       \* copy_file's int result; what it returned once fpc is past the call
    cfail,      \* the failure the environment dealt copy_file ("none" when none)
    fcalls,     \* the functions main has called so far
    mainRet,    \* main's return value (meaningful once fpc = "done")
    \* volatile_keyword.c : main and the flags its busy-waits poll
    vpc,                          \* where main stands
    simulated_hardware_register,  \* the simulated status register
    data_ready,                   \* the flag UART_IRQHandler sets
    GPIOA_MODER,                  \* the word at 0x40020000
    GPIOA_ODR,                    \* the word at 0x40020014
    \* bit_manipulation.c : field_write and field_read on main's config
    bmPc,       \* "ready", then "written" after field_write, "read" after field_read
    config,     \* the register word *reg that field_write works on
    configOld,  \* config as it was before field_write
    start_bit,  \* the arguments of the call
    num_bits,
    fvalue,     \* field_write's value argument
    field,      \* what field_read returned
    \* memory_mapped_io.c : the registers of one GPIO port and the calls on it
    gpio,       \* the GPIO_TypeDef register block
    gpioOld,    \* the block before the call
    mpc,        \* where the caller stands
    mfun,       \* the function called
    mpin,       \* its pin argument
    odrTmp,     \* the value gpio_set_odr read from ODR
    irqBit,     \* the ODR bit the interrupt handler changed (NoIrq before it ran)
    irqWhen,    \* mpc when the handler ran
    irqValue,   \* the value the handler gave that bit
    \* storage_classes.c : get_singleton's static instance and its callers
    instance,   \* the static Singleton: [initialized, data]
    scCalls,    \* calls of get_singleton so far
    initRuns,   \* times the initialisation block has run
    returned,   \* the addresses get_singleton has returned
    written,    \* the indices of data the caller has stored to
    \* array_operations.c : rotate_left / rotate_right on main's arr
    rotArr,     \* the array's storage (more elements than size)
    rotOld,     \* the storage before the first rotation
    rotSize,    \* the size argument
    rotPos,     \* the positions argument
    rotOp,      \* the function called first
    rotPc,      \* "ready", "rotated" after one call, "undone" after the opposite one
    rotOob      \* an element outside arr[0..size-1] or temp[0..255] was touched

sortVars   == <<input, arr, oob, algo>>
searchVars == <<bsArr, bsTarget, left, right, bsPc, bsResult, bsOob>>
arrVars    == <<data, size, capacity, value, aop, aret, heapErr, absSeq>>
listVars   == <<heap, head, lop, larg, lret, lfreed, lerr, absList>>
fileVars   == <<argc, fpc, fmode, fsrc, fdst, srcOrig, dstOrig, srcOpen, dstOpen, rpos, rerr,
                sizeKnown, cres, cfail, fcalls, mainRet>>
volVars    == <<vpc, simulated_hardware_register, data_ready, GPIOA_MODER, GPIOA_ODR>>

bmVars     == <<bmPc, config, configOld, start_bit, num_bits, fvalue, field>>
mmioVars   == <<gpio, gpioOld, mpc, mfun, mpin, odrTmp, irqBit, irqWhen, irqValue>>
scVars     == <<instance, scCalls, initRuns, returned, written>>
rotVars    == <<rotArr, rotOld, rotSize, rotPos, rotOp, rotPc, rotOob>>
\* The programs of the first part of the module, and those of the second.
baseVars   == <<sortVars, searchVars, arrVars, listVars>>
extVars    == <<fileVars, volVars, bmVars, mmioVars, scVars, rotVars>>
vars       == <<baseVars, extVars>>

\* What each program of the second part leaves alone.
exceptFile == <<baseVars, volVars, bmVars, mmioVars, scVars, rotVars>>
exceptVol == <<baseVars, fileVars, bmVars, mmioVars, scVars, rotVars>>
exceptBm == <<baseVars, fileVars, volVars, mmioVars, scVars, rotVars>>
exceptMmio == <<baseVars, fileVars, volVars, bmVars, scVars, rotVars>>
exceptSc == <<baseVars, fileVars, volVars, bmVars, mmioVars, rotVars>>
exceptRot == <<baseVars, fileVars, volVars, bmVars, mmioVars, scVars>>

\* ------------------------------------------------------------------ bounds
\* Longest array sorted or searched.
MaxLen == 4
\* Array elements are 0..MaxVal.
MaxVal == 2

\* The caller of the dynamic array stops adding elements at MaxSize.
MaxSize == 5
\* create_array is called with an initial capacity of 1..MaxInitCap.
MaxInitCap == 2

\* Addresses malloc can hand out for list nodes: 1..MaxNodes.
MaxNodes == 4

\* copy_file's buffer holds BufSize bytes (BUFFER_SIZE, scaled down).
BufSize == 2
\* Longest source file copied: room for two full buffers and a remainder.
MaxFileLen == 5

\* Calls of get_singleton in one run.
MaxCalls == 4

\* rotate_left / rotate_right: the temporary buffer holds MaxRotateBuffer
\* elements (MAX_ROTATE_BUFFER, scaled down), arrays have up to MaxRotLen
\* elements and are rotated by up to MaxPositions.
MaxRotateBuffer == 2
MaxRotLen == 6
MaxPositions == 8

Values == 0..MaxVal

RECURSIVE SeqsUpTo(_, _)
\* All sequences over S of length 0..n.
SeqsUpTo(S, n) ==
    IF n = 0 THEN {<<>>}
    ELSE LET shorter == SeqsUpTo(S, n - 1)
         IN  shorter \cup {Append(s, x) : s \in {t \in shorter : Len(t) = n - 1}, x \in S}

\* ------------------------------------------------------------------ idle programs
IdleSort ==
    /\ input = <<>>
    /\ arr = <<>>
    /\ oob = FALSE
    /\ algo = "idle"

IdleSearch ==
    /\ bsArr = <<>>
    /\ bsTarget = 0
    /\ left = 0
    /\ right = 0
    /\ bsPc = "idle"
    /\ bsResult = 0
    /\ bsOob = FALSE

IdleArr ==
    /\ data = <<>>
    /\ size = 0
    /\ capacity = 0
    /\ value = 0
    /\ aop = "idle"
    /\ aret = FALSE
    /\ heapErr = FALSE
    /\ absSeq = <<>>

\* The null pointer.
NULL == 0

IdleList ==
    /\ heap = <<>>
    /\ head = NULL
    /\ lop = "idle"
    /\ larg = NULL
    /\ lret = FALSE
    /\ lfreed = {}
    /\ lerr = FALSE
    /\ absList = <<>>

\* A file that does not exist.
NoFile == [exists |-> FALSE, bytes |-> <<>>]

IdleFile ==
    /\ argc = 0
    /\ fpc = "idle"
    /\ fmode = "none"
    /\ fsrc = NoFile
    /\ fdst = NoFile
    /\ srcOrig = <<>>
    /\ dstOrig = NoFile
    /\ srcOpen = FALSE
    /\ dstOpen = FALSE
    /\ rpos = 0
    /\ rerr = FALSE
    /\ sizeKnown = FALSE
    /\ cres = 0
    /\ cfail = "none"
    /\ fcalls = {}
    /\ mainRet = 0

IdleVol ==
    /\ vpc = "idle"
    /\ simulated_hardware_register = 0
    /\ data_ready = FALSE
    /\ GPIOA_MODER = {}
    /\ GPIOA_ODR = {}

IdleBm ==
    /\ bmPc = "idle"
    /\ config = {}
    /\ configOld = {}
    /\ start_bit = 0
    /\ num_bits = 0
    /\ fvalue = {}
    /\ field = {}

IdleMmio ==
    /\ gpio = <<>>
    /\ gpioOld = <<>>
    /\ mpc = "idle"
    /\ mfun = "none"
    /\ mpin = 0
    /\ odrTmp = {}
    /\ irqBit = 0
    /\ irqWhen = "idle"
    /\ irqValue = 0

IdleSc ==
    /\ instance = <<>>
    /\ scCalls = 0 - 1
    /\ initRuns = 0
    /\ returned = {}
    /\ written = {}

IdleRot ==
    /\ rotArr = <<>>
    /\ rotOld = <<>>
    /\ rotSize = 0
    /\ rotPos = 0
    /\ rotOp = "none"
    /\ rotPc = "idle"
    /\ rotOob = FALSE

\* Every program of the second part is idle.
IdleExt == IdleFile /\ IdleVol /\ IdleBm /\ IdleMmio /\ IdleSc /\ IdleRot

\* Every program but one is idle.
IdleBase == IdleSort /\ IdleSearch /\ IdleArr /\ IdleList
IdleExceptFile == IdleBase /\ IdleVol /\ IdleBm /\ IdleMmio /\ IdleSc /\ IdleRot
IdleExceptVol == IdleBase /\ IdleFile /\ IdleBm /\ IdleMmio /\ IdleSc /\ IdleRot
IdleExceptBm == IdleBase /\ IdleFile /\ IdleVol /\ IdleMmio /\ IdleSc /\ IdleRot
IdleExceptMmio == IdleBase /\ IdleFile /\ IdleVol /\ IdleBm /\ IdleSc /\ IdleRot
IdleExceptSc == IdleBase /\ IdleFile /\ IdleVol /\ IdleBm /\ IdleMmio /\ IdleRot
IdleExceptRot == IdleBase /\ IdleFile /\ IdleVol /\ IdleBm /\ IdleMmio /\ IdleSc

\* ================================================================== sorting.c
\* An element: the int the C code compares (key) and, as a tag that the code
\* never looks at, the index it had in the input.
Key(e) == e.key

Tagged(ks) == [i \in 1..Len(ks) |-> [key |-> ks[i], pos |-> i - 1]]

\* An index the C code may touch in an array of n elements (the C parameter size).
InRange(n, i) == i >= 0 /\ i < n

\* sorting.c:188-190 written without the temporary: arr[j] is lost.
SwapNoTemp(a, i, j) == [a EXCEPT ![i + 1] = a[j + 1]]

\* int temp = arr[i]; arr[i] = arr[j]; arr[j] = temp;
Swap(a, i, j) == [a EXCEPT ![i + 1] = a[j + 1], ![j + 1] = a[i + 1]]

\* The comparison of bubble_sort reversed.
BubbleOutOfOrderReversed(x, y) == Key(x) < Key(y)

\* if (arr[j] > arr[j + 1])
BubbleOutOfOrder(x, y) == Key(x) > Key(y)

RECURSIVE BubbleInner(_, _, _, _)
\* for (int j = 0; j < size - i - 1; j++) { ... }   st = [a, oob, swapped]
BubbleInner(st, n, i, j) ==
    IF j < n - i - 1
    THEN IF ~(InRange(n, j) /\ InRange(n, j + 1))
         THEN [st EXCEPT !.oob = TRUE]
         ELSE IF BubbleOutOfOrder(st.a[j + 1], st.a[j + 2])
              THEN BubbleInner([st EXCEPT !.a = Swap(st.a, j, j + 1), !.swapped = TRUE],
                               n, i, j + 1)
              ELSE BubbleInner(st, n, i, j + 1)
    ELSE st

RECURSIVE BubbleOuter(_, _, _)
\* for (int i = 0; i < size - 1; i++) { swapped = false; ...; if (!swapped) break; }
BubbleOuter(st, n, i) ==
    IF i < n - 1 /\ ~st.oob
    THEN LET pass == BubbleInner([st EXCEPT !.swapped = FALSE], n, i, 0)
         IN  IF ~pass.swapped THEN pass ELSE BubbleOuter(pass, n, i + 1)
    ELSE st

bubble_sort(a, n) == BubbleOuter([a |-> a, oob |-> FALSE, swapped |-> FALSE], n, 0)

RECURSIVE SelectMin(_, _, _, _)
\* for (int j = i + 1; j < size; j++) if (arr[j] < arr[min_idx]) min_idx = j;
\* st = [a, oob, min_idx]
SelectMin(st, n, i, j) ==
    IF j < n
    THEN IF ~(InRange(n, j) /\ InRange(n, st.min_idx))
         THEN [st EXCEPT !.oob = TRUE]
         ELSE IF Key(st.a[j + 1]) < Key(st.a[st.min_idx + 1])
              THEN SelectMin([st EXCEPT !.min_idx = j], n, i, j + 1)
              ELSE SelectMin(st, n, i, j + 1)
    ELSE st

RECURSIVE SelectOuter(_, _, _)
\* for (int i = 0; i < size - 1; i++) { min_idx = i; ...; if (min_idx != i) swap }
SelectOuter(st, n, i) ==
    IF i < n - 1 /\ ~st.oob
    THEN LET found == SelectMin([st EXCEPT !.min_idx = i], n, i, i + 1)
         IN  IF found.oob THEN found
             ELSE IF found.min_idx # i
                  THEN SelectOuter([found EXCEPT !.a = Swap(found.a, i, found.min_idx)],
                                   n, i + 1)
                  ELSE SelectOuter(found, n, i + 1)
    ELSE st

selection_sort(a, n) == SelectOuter([a |-> a, oob |-> FALSE, min_idx |-> 0], n, 0)

\* The shift condition of insertion_sort with >= : equal keys are moved too.
InsertMustShiftOrEqual(x, key) == Key(x) >= Key(key)

\* arr[j] > key
InsertMustShift(x, key) == Key(x) > Key(key)

RECURSIVE InsertShift(_, _, _, _)
\* while (j >= 0 && arr[j] > key) { arr[j + 1] = arr[j]; j = j - 1; }
\* st = [a, oob, j]: the array and j when the loop ends
InsertShift(st, n, key, j) ==
    IF j >= 0
    THEN IF ~InRange(n, j)
         THEN [st EXCEPT !.oob = TRUE]
         ELSE IF InsertMustShift(st.a[j + 1], key)
              THEN IF ~InRange(n, j + 1)
                   THEN [st EXCEPT !.oob = TRUE]
                   ELSE InsertShift([st EXCEPT !.a[j + 2] = st.a[j + 1], !.j = j - 1],
                                    n, key, j - 1)
              ELSE [st EXCEPT !.j = j]
    ELSE [st EXCEPT !.j = j]

RECURSIVE InsertOuter(_, _, _)
\* for (int i = 1; i < size; i++) { key = arr[i]; j = i - 1; ...; arr[j + 1] = key; }
InsertOuter(st, n, i) ==
    IF i < n /\ ~st.oob
    THEN IF ~InRange(n, i)
         THEN [st EXCEPT !.oob = TRUE]
         ELSE LET key     == st.a[i + 1]
                  shifted == InsertShift([st EXCEPT !.j = i - 1], n, key, i - 1)
              IN  IF shifted.oob THEN shifted
                  ELSE IF ~InRange(n, shifted.j + 1)
                       THEN [shifted EXCEPT !.oob = TRUE]
                       ELSE InsertOuter([shifted EXCEPT !.a[shifted.j + 2] = key],
                                        n, i + 1)
    ELSE st

insertion_sort(a, n) == InsertOuter([a |-> a, oob |-> FALSE, j |-> 0], n, 1)

RECURSIVE IsSortedFrom(_, _, _)
\* for (int i = 0; i < size - 1; i++) if (arr[i] > arr[i + 1]) return false;
IsSortedFrom(a, n, i) ==
    IF i < n - 1
    THEN IF Key(a[i + 1]) > Key(a[i + 2]) THEN FALSE ELSE IsSortedFrom(a, n, i + 1)
    ELSE TRUE

is_sorted(a, n) == IsSortedFrom(a, n, 0)

InitSort ==
    /\ input \in {Tagged(ks) : ks \in SeqsUpTo(Values, MaxLen)}
    /\ arr = input
    /\ oob = FALSE
    /\ algo = "none"

\* copy_array(arr, original, ARRAY_SIZE); bubble_sort(arr, ARRAY_SIZE);
BubbleSort ==
    /\ algo = "none"
    /\ LET r == bubble_sort(arr, Len(arr))
       IN  arr' = r.a /\ oob' = r.oob
    /\ algo' = "bubble"
    /\ UNCHANGED <<input, searchVars, arrVars, listVars, extVars>>

SelectionSort ==
    /\ algo = "none"
    /\ LET r == selection_sort(arr, Len(arr))
       IN  arr' = r.a /\ oob' = r.oob
    /\ algo' = "selection"
    /\ UNCHANGED <<input, searchVars, arrVars, listVars, extVars>>

InsertionSort ==
    /\ algo = "none"
    /\ LET r == insertion_sort(arr, Len(arr))
       IN  arr' = r.a /\ oob' = r.oob
    /\ algo' = "insertion"
    /\ UNCHANGED <<input, searchVars, arrVars, listVars, extVars>>

NextSort == BubbleSort \/ SelectionSort \/ InsertionSort

SortInit == InitSort /\ IdleSearch /\ IdleArr /\ IdleList /\ IdleExt

SpecSort == SortInit /\ [][NextSort]_vars

SortReturned == algo \in {"bubble", "selection", "insertion"}

Count(a, v) == Cardinality({i \in 1..Len(a) : Key(a[i]) = v})

\* C1: after bubble_sort, selection_sort or insertion_sort returns, the array is
\* in non-decreasing order and is_sorted(arr, size) returns true, for every
\* input of length >= 0, duplicates included.
C1_SortedAfterSort ==
    SortReturned =>
        /\ is_sorted(arr, Len(arr))
        /\ \A i, j \in 1..Len(arr) : i < j => Key(arr[i]) <= Key(arr[j])

\* C1 witness: bubble_sort returned early (the input needed fewer passes than
\* size - 1) on an input with a duplicate that was not already sorted.
C1_Witness ==
    /\ algo = "bubble"
    /\ Len(input) = MaxLen
    /\ ~is_sorted(input, Len(input))
    /\ ~bubble_sort(input, Len(input)).swapped
    /\ \E i, j \in 1..Len(input) : i # j /\ Key(input[i]) = Key(input[j])
    /\ is_sorted(arr, Len(arr))

\* C2: the array a sort leaves is a permutation of its input (every value occurs
\* as often after as before) and no index outside 0..size-1 was read or written.
C2_SortPermutes ==
    SortReturned =>
        /\ ~oob
        /\ Len(arr) = Len(input)
        /\ \A v \in Values : Count(arr, v) = Count(input, v)

\* C2 witness: insertion_sort moved elements of an input holding a duplicate.
C2_Witness ==
    /\ algo = "insertion"
    /\ arr # input
    /\ \E v \in Values : Count(input, v) >= 2
    /\ ~oob


\* C18: bubble_sort and insertion_sort are stable: any two elements with equal
\* keys are in the output in the order they had in the input (each element
\* carries its input position as a tag the sort never reads).
C18_StableSorts ==
    algo \in {"bubble", "insertion"} =>
        \A i, j \in 1..Len(arr) :
            (i < j /\ Key(arr[i]) = Key(arr[j])) => arr[i].pos < arr[j].pos

\* insertion_sort moved a smaller element from behind two equal keys to the
\* front, and the equal keys kept their order.
C18_Witness ==
    /\ algo = "insertion"
    /\ Len(input) = 4
    /\ Key(input[1]) = 1 /\ Key(input[2]) = 2 /\ Key(input[3]) = 2 /\ Key(input[4]) = 0
    /\ arr = <<input[4], input[1], input[2], input[3]>>

\* ================================================================== searching.c
\* The arrays binary_search requires: sorted in non-decreasing order.
SortedSeqs == {s \in SeqsUpTo(Values, MaxLen) : \A i \in 1..(Len(s) - 1) : s[i] <= s[i + 1]}

\* Targets: every element value, one below all of them, one above all of them.
Targets == (0 - 1)..(MaxVal + 1)

\* int left = 0; int right = size - 1;
InitSearch ==
    /\ bsArr \in SortedSeqs
    /\ bsTarget \in Targets
    /\ left = 0
    /\ right = Len(bsArr) - 1
    /\ bsPc = "loop"
    /\ bsResult = 0
    /\ bsOob = FALSE

\* int mid = left + (right - left) / 2;
Mid(l, r) == l + (r - l) \div 2

\* searching.c:218-219 without the + 1.
NextLeftNoStep(mid) == mid

\* left = mid + 1;
NextLeft(mid) == mid + 1

\* right = mid - 1;
NextRight(mid) == mid - 1

\* One iteration of while (left <= right) { ... }
BSIter ==
    /\ bsPc = "loop"
    /\ left <= right
    /\ LET mid == Mid(left, right)
       IN  IF ~InRange(Len(bsArr), mid)
           THEN /\ bsOob' = TRUE
                /\ bsPc' = "done"
                /\ UNCHANGED <<left, right, bsResult>>
           ELSE IF bsArr[mid + 1] = bsTarget
                THEN /\ bsResult' = mid
                     /\ bsPc' = "done"
                     /\ UNCHANGED <<left, right, bsOob>>
                ELSE IF bsArr[mid + 1] < bsTarget
                     THEN /\ left' = NextLeft(mid)
                          /\ UNCHANGED <<right, bsPc, bsResult, bsOob>>
                     ELSE /\ right' = NextRight(mid)
                          /\ UNCHANGED <<left, bsPc, bsResult, bsOob>>
    /\ UNCHANGED <<bsArr, bsTarget, sortVars, arrVars, listVars, extVars>>

\* The loop condition fails: return -1;
BSNotFound ==
    /\ bsPc = "loop"
    /\ left > right
    /\ bsResult' = 0 - 1
    /\ bsPc' = "done"
    /\ UNCHANGED <<bsArr, bsTarget, left, right, bsOob, sortVars, arrVars, listVars, extVars>>

NextSearch == BSIter \/ BSNotFound

SearchInit == InitSearch /\ IdleSort /\ IdleArr /\ IdleList /\ IdleExt

SpecSearch == SearchInit /\ [][NextSearch]_vars

\* binary_search is straight-line code in a single-threaded program: an enabled
\* iteration is executed.
SpecSearchFair == SpecSearch /\ WF_vars(NextSearch)

Occurs(a, t) == \E i \in 1..Len(a) : a[i] = t

BSReturnCorrect ==
    bsPc = "done" =>
        /\ ~bsOob
        /\ (bsResult = 0 - 1) <=> ~Occurs(bsArr, bsTarget)
        /\ Occurs(bsArr, bsTarget) =>
               /\ bsResult \in 0..(Len(bsArr) - 1)
               /\ bsArr[bsResult + 1] = bsTarget

\* An iteration that does not return strictly shrinks the interval left..right.
BSIntervalShrinks ==
    (bsPc = "loop" /\ bsPc' = "loop") => (right' - left') < (right - left)

\* C3: on every sorted array (empty, with duplicates) and every target,
\* binary_search returns an index i in 0..size-1 with arr[i] == target when the
\* target occurs, returns -1 exactly when it does not, and its loop terminates.
C3_BinarySearch ==
    /\ []BSReturnCorrect
    /\ [][BSIntervalShrinks]_vars
    /\ <>(bsPc = "done")

\* C3 witness: the target was found in an array holding it twice, after the
\* interval had been narrowed from the left.
C3_Witness ==
    /\ bsPc = "done"
    /\ bsResult >= 0
    /\ Count([i \in 1..Len(bsArr) |-> [key |-> bsArr[i]]], bsTarget) >= 2
    /\ left > 0


\* ================================================================== ex01_dynamic_array.c
\* The ints stored; the code only moves them.
ArrValues == {10, 20}

\* What a cell holds that was allocated and never written: an indeterminate
\* int, told apart from every stored value so that a read of it shows.
Uninit == 0 - 1

\* size_t index arguments tried on an array of sz elements: every valid one
\* (0..sz-1), the end (sz) and one past the end (sz + 1).
Indices(sz) == 0..(sz + 1)

\* The part of a DynamicArray the functions work on.
ArrState == [data |-> data, size |-> size, capacity |-> capacity, err |-> heapErr]

\* realloc(arr->data, new_capacity * sizeof(int)) succeeding: the first
\* min(old, new) ints are kept, the rest of the new block is indeterminate.
Realloc(d, new_capacity) ==
    [i \in 1..new_capacity |-> IF i <= Len(d) THEN d[i] ELSE Uninit]

\* resize_array recording the new capacity before it looks at realloc's result.
ResizeCommitsFirst(st, new_capacity, reallocOk) ==
    IF new_capacity < st.size
    THEN [st |-> st, ret |-> FALSE]
    ELSE IF ~reallocOk
         THEN [st |-> [st EXCEPT !.capacity = new_capacity], ret |-> FALSE]
         ELSE [st  |-> [st EXCEPT !.data = Realloc(st.data, new_capacity),
                                  !.capacity = new_capacity],
               ret |-> TRUE]

\* static bool resize_array(DynamicArray *arr, size_t new_capacity)
\* reallocOk: whether realloc returns a block.  Gives [st, ret].
resize_array(st, new_capacity, reallocOk) ==
    IF new_capacity < st.size
    THEN [st |-> st, ret |-> FALSE]
    ELSE IF ~reallocOk
         THEN [st |-> st, ret |-> FALSE]
         ELSE [st  |-> [st EXCEPT !.data = Realloc(st.data, new_capacity),
                                  !.capacity = new_capacity],
               ret |-> TRUE]

\* Growing by one slot instead of doubling.
GrowCapacityByOne(c) == c + 1

\* size_t new_capacity = arr->capacity * 2;
GrowCapacity(c) == c * 2

\* arr->data[i] = x, for an index inside the block; outside it the heap is damaged.
Store(st, i, x) ==
    IF i >= 0 /\ i < st.capacity
    THEN [st EXCEPT !.data[i + 1] = x]
    ELSE [st EXCEPT !.err = TRUE]

\* arr->data[i] read; the block's cells are the only ones defined.
Load(st, i) == IF i >= 0 /\ i < st.capacity THEN st.data[i + 1] ELSE Uninit

\* bool append(DynamicArray *arr, int value).  Gives [st, ret].
append(st, arrNull, v, reallocOk) ==
    IF arrNull
    THEN [st |-> st, ret |-> FALSE]
    ELSE LET grown == IF st.size >= st.capacity
                      THEN resize_array(st, GrowCapacity(st.capacity), reallocOk)
                      ELSE [st |-> st, ret |-> TRUE]
         IN  IF ~grown.ret
             THEN [st |-> grown.st, ret |-> FALSE]
             ELSE [st  |-> [Store(grown.st, grown.st.size, v)
                               EXCEPT !.size = grown.st.size + 1],
                   ret |-> TRUE]

RECURSIVE ShiftRight(_, _, _)
\* for (size_t i = arr->size; i > index; i--) arr->data[i] = arr->data[i - 1];
ShiftRight(st, index, i) ==
    IF i > index
    THEN ShiftRight(Store(st, i, Load(st, i - 1)), index, i - 1)
    ELSE st

\* insert's index check accepting one position past the end.
InsertIndexInvalidLate(index, sz) == index > sz + 1

\* index > arr->size
InsertIndexInvalid(index, sz) == index > sz

\* bool insert(DynamicArray *arr, size_t index, int value).  Gives [st, ret].
insert(st, arrNull, index, v, reallocOk) ==
    IF arrNull \/ InsertIndexInvalid(index, st.size)
    THEN [st |-> st, ret |-> FALSE]
    ELSE LET grown == IF st.size >= st.capacity
                      THEN resize_array(st, GrowCapacity(st.capacity), reallocOk)
                      ELSE [st |-> st, ret |-> TRUE]
         IN  IF ~grown.ret
             THEN [st |-> grown.st, ret |-> FALSE]
             ELSE LET shifted == ShiftRight(grown.st, index, grown.st.size)
                  IN  [st  |-> [Store(shifted, index, v) EXCEPT !.size = shifted.size + 1],
                       ret |-> TRUE]

\* delete's loop left out: the last element is dropped instead of the indexed one.
ShiftLeftNone(st, i) == st

RECURSIVE ShiftLeft(_, _)
\* for (size_t i = index; i < arr->size - 1; i++) arr->data[i] = arr->data[i + 1];
ShiftLeft(st, i) ==
    IF i < st.size - 1
    THEN ShiftLeft(Store(st, i, Load(st, i + 1)), i + 1)
    ELSE st

\* arr->capacity > 4 && arr->size < arr->capacity / 4
ShouldShrink(st) == st.capacity > 4 /\ st.size < st.capacity \div 4

\* bool delete(DynamicArray *arr, size_t index).  Gives [st, ret].
delete(st, arrNull, index, reallocOk) ==
    IF arrNull \/ index >= st.size
    THEN [st |-> st, ret |-> FALSE]
    ELSE LET shifted == ShiftLeft(st, index)
             removed == [shifted EXCEPT !.size = shifted.size - 1]
         IN  [st  |-> IF ShouldShrink(removed)
                      THEN resize_array(removed, removed.capacity \div 2, reallocOk).st
                      ELSE removed,
              ret |-> TRUE]

\* bool get(const DynamicArray *arr, size_t index, int *value).
\* Gives [value, ret]: what the caller's int holds afterwards, and the result.
get(st, arrNull, index, valueNull, old) ==
    IF arrNull \/ index >= st.size \/ valueNull
    THEN [value |-> old, ret |-> FALSE]
    ELSE [value |-> Load(st, index), ret |-> TRUE]

\* DynamicArray *arr = create_array(c); the caller's int value is not initialised.
InitArr ==
    /\ capacity \in 1..MaxInitCap
    /\ data = [i \in 1..capacity |-> Uninit]
    /\ size = 0
    /\ value = Uninit
    /\ aop = "none"
    /\ aret = FALSE
    /\ heapErr = FALSE
    /\ absSeq = <<>>

InsertAt(s, i, v) == SubSeq(s, 1, i) \o <<v>> \o SubSeq(s, i + 1, Len(s))

RemoveAt(s, i) == SubSeq(s, 1, i) \o SubSeq(s, i + 2, Len(s))

Commit(r) ==
    /\ data' = r.st.data
    /\ size' = r.st.size
    /\ capacity' = r.st.capacity
    /\ heapErr' = r.st.err
    /\ aret' = r.ret

ArrAppend(arrNull, v, reallocOk) ==
    /\ aop # "idle"
    /\ arrNull \/ size < MaxSize
    /\ LET r == append(ArrState, arrNull, v, reallocOk)
       IN  /\ Commit(r)
           /\ absSeq' = IF r.ret THEN Append(absSeq, v) ELSE absSeq
    /\ aop' = "append"
    /\ UNCHANGED <<value, sortVars, searchVars, listVars, extVars>>

ArrInsert(arrNull, index, v, reallocOk) ==
    /\ aop # "idle"
    /\ arrNull \/ index > size \/ size < MaxSize
    /\ LET r == insert(ArrState, arrNull, index, v, reallocOk)
       IN  /\ Commit(r)
           /\ absSeq' = IF r.ret THEN InsertAt(absSeq, index, v) ELSE absSeq
    /\ aop' = "insert"
    /\ UNCHANGED <<value, sortVars, searchVars, listVars, extVars>>

ArrDelete(arrNull, index, reallocOk) ==
    /\ aop # "idle"
    /\ LET r == delete(ArrState, arrNull, index, reallocOk)
       IN  /\ Commit(r)
           /\ absSeq' = IF r.ret THEN RemoveAt(absSeq, index) ELSE absSeq
    /\ aop' = "delete"
    /\ UNCHANGED <<value, sortVars, searchVars, listVars, extVars>>

ArrGet(arrNull, index, valueNull) ==
    /\ aop # "idle"
    /\ LET r == get(ArrState, arrNull, index, valueNull, value)
       IN  /\ value' = r.value
           /\ aret' = r.ret
    /\ aop' = "get"
    /\ UNCHANGED <<data, size, capacity, heapErr, absSeq, sortVars, searchVars, listVars, extVars>>

NextArr ==
    \/ \E n \in BOOLEAN, v \in ArrValues, ok \in BOOLEAN : ArrAppend(n, v, ok)
    \/ \E n \in BOOLEAN, i \in Indices(size), v \in ArrValues, ok \in BOOLEAN : ArrInsert(n, i, v, ok)
    \/ \E n \in BOOLEAN, i \in Indices(size), ok \in BOOLEAN : ArrDelete(n, i, ok)
    \/ \E n \in BOOLEAN, i \in Indices(size), vn \in BOOLEAN : ArrGet(n, i, vn)

ArrInit == InitArr /\ IdleSort /\ IdleSearch /\ IdleList /\ IdleExt

SpecArr == ArrInit /\ [][NextArr]_vars

\* The elements stored, first to last.
Contents == SubSeq(data, 1, size)

\* A step in which append or insert returned true.
AddSucceeded == aop' \in {"append", "insert"} /\ aret'

\* The elements stored before the step are those stored after it with the new
\* one taken out: all still present, in the same relative order.
OldElementsKept == \E k \in 0..(size' - 1) : RemoveAt(Contents', k) = Contents

GrowsWhenFull ==
    AddSucceeded =>
        /\ size' = size + 1
        /\ OldElementsKept
        /\ IF size = capacity THEN capacity' = 2 * capacity ELSE capacity' = capacity

\* C4: when append or insert (valid index) is called with size == capacity and
\* the reallocation succeeds, capacity becomes exactly twice the previous
\* capacity and the stored elements keep their relative order; when
\* size < capacity, append and insert leave capacity unchanged.
C4_DoublesWhenFull == [][GrowsWhenFull]_vars

\* C4 witness: an insert in front of stored elements returned true with the
\* block grown twice (capacity 1 or 2 at creation, 8 now).
C4_Witness ==
    /\ aop = "insert"
    /\ aret
    /\ capacity = 8
    /\ size = 5
    /\ Contents = absSeq
    /\ ~heapErr

\* C5 (as claimed): for capacity > 4, a delete that returns true and leaves
\* size == capacity / 4 leaves capacity == previous capacity / 2 (the fourth
\* delete of the demo: size 2 of capacity 8, then capacity 4).
C5_HalvesAtQuarter ==
    [][(aop' = "delete" /\ aret' /\ capacity > 4 /\ size' = capacity \div 4)
          => capacity' = capacity \div 2]_vars

\* What a refused call gives back: false, and the array as it was.
Refused == [st |-> ArrState, ret |-> FALSE]

\* C6: insert with index > size, delete with index >= size, get with
\* index >= size or value == NULL, and any of append/insert/delete/get with
\* arr == NULL return false and leave size, capacity, the stored elements and
\* the caller's *value exactly as they were, in every state the array reaches.
C6_InvalidRequestsChangeNothing ==
    aop # "idle" =>
        \A n \in BOOLEAN, i \in Indices(size), v \in ArrValues, ok \in BOOLEAN, vn \in BOOLEAN :
            /\ n => append(ArrState, n, v, ok) = Refused
            /\ (n \/ i > size) => insert(ArrState, n, i, v, ok) = Refused
            /\ (n \/ i >= size) => delete(ArrState, n, i, ok) = Refused
            /\ (n \/ i >= size \/ vn) =>
                   get(ArrState, n, i, vn, value) = [value |-> value, ret |-> FALSE]

\* C6 witness: insert returned false on an array that holds elements and has
\* room (so no reallocation was tried): the request itself was invalid.
C6_Witness ==
    /\ aop = "insert"
    /\ aret = FALSE
    /\ size >= 2
    /\ size < capacity
    /\ Contents = absSeq

\* C7: from create_array(c), c >= 1, over any sequence of successful append,
\* insert and delete calls (growing and shrinking), size is the length of the
\* abstract sequence and get(i, &x) yields its i-th element for every i < size.
C7_ArrayIsSequence ==
    aop # "idle" =>
        /\ size = Len(absSeq)
        /\ ~heapErr
        /\ \A i \in 0..(size - 1) :
               LET r == get(ArrState, FALSE, i, FALSE, value)
               IN  r.ret /\ r.value = absSeq[i + 1]

\* C7 witness: a delete returned true on a grown block (capacity 8) and left
\* three elements that are not all equal.
C7_Witness ==
    /\ aop = "delete"
    /\ aret
    /\ capacity = 8
    /\ size = 3
    /\ absSeq[1] # absSeq[3]
    /\ Contents = absSeq

\* delete is about to try to shrink: the capacity test holds once index is removed.
ShrinkDue == capacity > 4 /\ size - 1 < capacity \div 4

\* C20: when the reallocation needed to grow fails, append and insert return
\* false and size, capacity and the stored elements are exactly as before;
\* when the shrink reallocation inside delete fails, delete still removes the
\* element and returns true, and capacity stays as it was.
C20_ReallocFailure ==
    aop # "idle" =>
        /\ size >= capacity =>
               \A i \in 0..size, v \in ArrValues :
                  /\ append(ArrState, FALSE, v, FALSE) = Refused
                  /\ insert(ArrState, FALSE, i, v, FALSE) = Refused
        /\ ShrinkDue =>
               \A i \in 0..(size - 1) :
                  LET r == delete(ArrState, FALSE, i, FALSE)
                  IN  /\ r.ret
                      /\ r.st.size = size - 1
                      /\ r.st.capacity = capacity
                      /\ SubSeq(r.st.data, 1, r.st.size) = RemoveAt(Contents, i)
                      /\ ~r.st.err

\* C20 witness: a delete returned true and left one element in a block of
\* capacity 8: its shrink was due and failed, or capacity would be 4.
C20_Witness ==
    /\ aop = "delete"
    /\ aret
    /\ capacity = 8
    /\ size = 1
    /\ Contents = absSeq

\* ================================================================== ex02_linked_list.c
\* The ints stored in nodes.
ListValues == {10, 20}

Addr == 1..MaxNodes

\* The list as the functions see it: the heap, *head, and the error flag.
ListState == [heap |-> heap, head |-> head, err |-> lerr]

Allocated(ls, a) == a \in DOMAIN ls.heap

\* What malloc(sizeof(Node)) may return in this heap: NULL, or a block that is
\* not in use.
MallocResults(h) == {NULL} \cup (Addr \ DOMAIN h)

\* More steps than any loop over an acyclic list of allocated nodes can take.
Fuel(ls) == Cardinality(DOMAIN ls.heap) + 1

\* Node *create_node(int data) returning a (a # NULL): the node a is allocated
\* with data and next = NULL.
create_node(ls, d, a) ==
    [ls EXCEPT !.heap = [x \in DOMAIN ls.heap \cup {a} |->
                            IF x = a THEN [data |-> d, next |-> NULL] ELSE ls.heap[x]]]

\* p->next = q
SetNext(ls, p, q) ==
    IF Allocated(ls, p)
    THEN [ls EXCEPT !.heap[p].next = q]
    ELSE [ls EXCEPT !.err = TRUE]

\* free() forgotten: the node stays allocated.
FreeLeak(ls, a) == ls

\* free(a)
Free(ls, a) ==
    IF Allocated(ls, a)
    THEN [ls EXCEPT !.heap = [x \in DOMAIN ls.heap \ {a} |-> ls.heap[x]]]
    ELSE [ls EXCEPT !.err = TRUE]

\* void insert_front(Node **head, int data); a is what malloc returned.
insert_front(ls, d, a) ==
    IF a = NULL
    THEN ls
    ELSE [SetNext(create_node(ls, d, a), a, ls.head) EXCEPT !.head = a]

\* insert_end's traversal stopping at the head: the new node replaces the tail
\* of the list.
LastNodeIsHead(ls, cur, fuel) == [node |-> cur, err |-> FALSE]

RECURSIVE LastNode(_, _, _)
\* while (current->next != NULL) current = current->next;   gives [node, err]
LastNode(ls, cur, fuel) ==
    IF ~Allocated(ls, cur) \/ fuel = 0
    THEN [node |-> cur, err |-> TRUE]
    ELSE IF ls.heap[cur].next # NULL
         THEN LastNode(ls, ls.heap[cur].next, fuel - 1)
         ELSE [node |-> cur, err |-> FALSE]

\* void insert_end(Node **head, int data); a is what malloc returned.
insert_end(ls, d, a) ==
    IF a = NULL
    THEN ls
    ELSE LET made == create_node(ls, d, a)
         IN  IF made.head = NULL
             THEN [made EXCEPT !.head = a]
             ELSE LET last == LastNode(made, made.head, Fuel(made))
                  IN  IF last.err
                      THEN [made EXCEPT !.err = TRUE]
                      ELSE SetNext(made, last.node, a)

RECURSIVE FindData(_, _, _, _)
\* while (current != NULL && current->data != target) current = current->next;
\* gives [node, err]; node is NULL when no node holds target
FindData(ls, cur, target, fuel) ==
    IF cur = NULL
    THEN [node |-> NULL, err |-> FALSE]
    ELSE IF ~Allocated(ls, cur) \/ fuel = 0
         THEN [node |-> cur, err |-> TRUE]
         ELSE IF ls.heap[cur].data # target
              THEN FindData(ls, ls.heap[cur].next, target, fuel - 1)
              ELSE [node |-> cur, err |-> FALSE]

\* bool insert_after(Node *head, int target, int data); a is what malloc would
\* return.  Gives [ls, ret].
insert_after(ls, target, d, a) ==
    LET found == FindData(ls, ls.head, target, Fuel(ls))
    IN  IF found.err
        THEN [ls |-> [ls EXCEPT !.err = TRUE], ret |-> FALSE]
        ELSE IF found.node = NULL
             THEN [ls |-> ls, ret |-> FALSE]
             ELSE IF a = NULL
                  THEN [ls |-> ls, ret |-> FALSE]
                  ELSE LET made == create_node(ls, d, a)
                       IN  [ls  |-> SetNext(SetNext(made, a, made.heap[found.node].next),
                                            found.node, a),
                            ret |-> TRUE]

\* delete_node's search loop left out: the node after the head is taken
\* whatever it holds.
FindBeforeNoSearch(ls, cur, d, fuel) == [node |-> cur, err |-> FALSE]

RECURSIVE FindBefore(_, _, _, _)
\* while (current->next != NULL && current->next->data != data) current = current->next;
\* gives [node, err]
FindBefore(ls, cur, d, fuel) ==
    IF ~Allocated(ls, cur) \/ fuel = 0
    THEN [node |-> cur, err |-> TRUE]
    ELSE LET nxt == ls.heap[cur].next
         IN  IF nxt = NULL
             THEN [node |-> cur, err |-> FALSE]
             ELSE IF ~Allocated(ls, nxt)
                  THEN [node |-> cur, err |-> TRUE]
                  ELSE IF ls.heap[nxt].data # d
                       THEN FindBefore(ls, nxt, d, fuel - 1)
                       ELSE [node |-> cur, err |-> FALSE]

\* bool delete_node(Node **head, int data).  Gives [ls, ret].
delete_node(ls, d) ==
    IF ls.head = NULL
    THEN [ls |-> ls, ret |-> FALSE]
    ELSE IF ~Allocated(ls, ls.head)
         THEN [ls |-> [ls EXCEPT !.err = TRUE], ret |-> FALSE]
         ELSE IF ls.heap[ls.head].data = d
              THEN [ls  |-> Free([ls EXCEPT !.head = ls.heap[ls.head].next], ls.head),
                    ret |-> TRUE]
              ELSE LET before == FindBefore(ls, ls.head, d, Fuel(ls))
                   IN  IF before.err
                       THEN [ls |-> [ls EXCEPT !.err = TRUE], ret |-> FALSE]
                       ELSE IF ls.heap[before.node].next = NULL
                            THEN [ls |-> ls, ret |-> FALSE]
                            ELSE LET temp == ls.heap[before.node].next
                                 IN  [ls  |-> Free(SetNext(ls, before.node,
                                                           ls.heap[temp].next), temp),
                                      ret |-> TRUE]

RECURSIVE CountFrom(_, _, _)
\* while (current != NULL) { count++; current = current->next; }
CountFrom(ls, cur, fuel) ==
    IF cur = NULL \/ ~Allocated(ls, cur) \/ fuel = 0
    THEN 0
    ELSE 1 + CountFrom(ls, ls.heap[cur].next, fuel - 1)

\* size_t get_length(Node *head)
get_length(ls) == CountFrom(ls, ls.head, Fuel(ls))

RECURSIVE FreeFrom(_, _, _)
\* while (current != NULL) { next = current->next; free(current); current = next; }
FreeFrom(ls, cur, fuel) ==
    IF cur = NULL
    THEN ls
    ELSE IF ~Allocated(ls, cur) \/ fuel = 0
         THEN [ls EXCEPT !.err = TRUE]
         ELSE FreeFrom(Free(ls, cur), ls.heap[cur].next, fuel - 1)

\* void free_list(Node **head)
free_list(ls) == [FreeFrom(ls, ls.head, Fuel(ls)) EXCEPT !.head = NULL]

RECURSIVE ReverseFrom(_, _, _, _)
\* while (current != NULL) { next = current->next; current->next = prev;
\*                           prev = current; current = next; }   then *head = prev
ReverseFrom(ls, prev, cur, fuel) ==
    IF cur = NULL
    THEN [ls EXCEPT !.head = prev]
    ELSE IF ~Allocated(ls, cur) \/ fuel = 0
         THEN [ls EXCEPT !.err = TRUE]
         ELSE ReverseFrom(SetNext(ls, cur, prev), cur, ls.heap[cur].next, fuel - 1)

\* void reverse_list(Node **head)
reverse_list(ls) == ReverseFrom(ls, NULL, ls.head, Fuel(ls))

RECURSIVE NodesFrom(_, _, _)
\* The nodes met from cur by following next to NULL, as print_list walks them.
NodesFrom(ls, cur, fuel) ==
    IF cur = NULL \/ ~Allocated(ls, cur) \/ fuel = 0
    THEN <<>>
    ELSE <<cur>> \o NodesFrom(ls, ls.heap[cur].next, fuel - 1)

Nodes(ls) == NodesFrom(ls, ls.head, Fuel(ls))

\* The data print_list prints, head first.
ListSeq(ls) == LET ns == Nodes(ls) IN [i \in 1..Len(ns) |-> ls.heap[ns[i]].data]

\* Node *head = NULL;
InitList ==
    /\ heap = <<>>
    /\ head = NULL
    /\ lop = "none"
    /\ larg = NULL
    /\ lret = FALSE
    /\ lfreed = {}
    /\ lerr = FALSE
    /\ absList = <<>>

CommitList(ls) ==
    /\ heap' = ls.heap
    /\ head' = ls.head
    /\ lerr' = ls.err
    /\ lfreed' = DOMAIN heap \ DOMAIN ls.heap

\* The position of the first v in s (0 when there is none).
FirstIndex(s, v) ==
    IF \E i \in 1..Len(s) : s[i] = v
    THEN CHOOSE i \in 1..Len(s) : s[i] = v /\ \A k \in 1..(i - 1) : s[k] # v
    ELSE 0

RECURSIVE Reverse(_)
Reverse(s) == IF s = <<>> THEN <<>> ELSE Append(Reverse(Tail(s)), Head(s))

LInsertFront(d, a) ==
    /\ lop # "idle"
    /\ CommitList(insert_front(ListState, d, a))
    /\ absList' = IF a # NULL THEN <<d>> \o absList ELSE absList
    /\ lop' = "insert_front"
    /\ larg' = d
    /\ lret' = TRUE
    /\ UNCHANGED <<sortVars, searchVars, arrVars, extVars>>

LInsertEnd(d, a) ==
    /\ lop # "idle"
    /\ CommitList(insert_end(ListState, d, a))
    /\ absList' = IF a # NULL THEN Append(absList, d) ELSE absList
    /\ lop' = "insert_end"
    /\ larg' = d
    /\ lret' = TRUE
    /\ UNCHANGED <<sortVars, searchVars, arrVars, extVars>>

LInsertAfter(target, d, a) ==
    /\ lop # "idle"
    /\ LET r == insert_after(ListState, target, d, a)
           k == FirstIndex(absList, target)
       IN  /\ CommitList(r.ls)
           /\ lret' = r.ret
           /\ absList' = IF a # NULL /\ k > 0 THEN InsertAt(absList, k, d) ELSE absList
    /\ lop' = "insert_after"
    /\ larg' = d
    /\ UNCHANGED <<sortVars, searchVars, arrVars, extVars>>

LDeleteNode(d) ==
    /\ lop # "idle"
    /\ LET r == delete_node(ListState, d)
           k == FirstIndex(absList, d)
       IN  /\ CommitList(r.ls)
           /\ lret' = r.ret
           /\ absList' = IF k > 0 THEN RemoveAt(absList, k - 1) ELSE absList
    /\ lop' = "delete_node"
    /\ larg' = d
    /\ UNCHANGED <<sortVars, searchVars, arrVars, extVars>>

LReverse ==
    /\ lop # "idle"
    /\ CommitList(reverse_list(ListState))
    /\ absList' = Reverse(absList)
    /\ lop' = "reverse_list"
    /\ larg' = NULL
    /\ lret' = TRUE
    /\ UNCHANGED <<sortVars, searchVars, arrVars, extVars>>

LFreeList ==
    /\ lop # "idle"
    /\ CommitList(free_list(ListState))
    /\ absList' = <<>>
    /\ lop' = "free_list"
    /\ larg' = NULL
    /\ lret' = TRUE
    /\ UNCHANGED <<sortVars, searchVars, arrVars, extVars>>

NextListInsert ==
    \/ \E d \in ListValues, a \in MallocResults(heap) : LInsertFront(d, a)
    \/ \E d \in ListValues, a \in MallocResults(heap) : LInsertEnd(d, a)

NextList ==
    \/ \E d \in ListValues, a \in MallocResults(heap) : LInsertFront(d, a)
    \/ \E d \in ListValues, a \in MallocResults(heap) : LInsertEnd(d, a)
    \/ \E t \in ListValues, d \in ListValues, a \in MallocResults(heap) : LInsertAfter(t, d, a)
    \/ \E d \in ListValues : LDeleteNode(d)
    \/ LReverse
    \/ LFreeList

ListInit == InitList /\ IdleSort /\ IdleSearch /\ IdleArr /\ IdleExt

\* Any sequence of calls on main's list.
SpecList == ListInit /\ [][NextList]_vars

\* Only insert_front and insert_end calls, from the empty list.
SpecListInsert == ListInit /\ [][NextListInsert]_vars

\* The list after the step.
ListStateNext == [heap |-> heap', head |-> head', err |-> lerr']

\* What a delete_node(&head, v) step must do.
DeleteNodeEffect(v) ==
    LET old == ListState
        new == ListStateNext
        ns  == Nodes(old)
        k   == FirstIndex(ListSeq(old), v)
    IN  IF k > 0
        THEN /\ lret' = TRUE
             /\ ~new.err
             /\ Nodes(new) = RemoveAt(ns, k - 1)
             /\ DOMAIN new.heap = DOMAIN old.heap \ {ns[k]}
             /\ \A a \in DOMAIN new.heap : new.heap[a].data = old.heap[a].data
        ELSE /\ lret' = FALSE
             /\ new = old

\* C8: delete_node(&head, v) removes exactly the first node holding v (head,
\* interior or tail), frees it, keeps the other nodes in their order and
\* returns true; on an empty list or when no node holds v it returns false and
\* the list is unchanged.
C8_DeleteFirstMatch == [][\A v \in ListValues : LDeleteNode(v) => DeleteNodeEffect(v)]_vars

\* C8 witness: delete_node(&head, 10) returned true, freed one node, and the
\* list still holds a 10 behind a 20: the node removed was the first 10, and
\* the later one stayed.
C8_Witness ==
    /\ lop = "delete_node"
    /\ larg = 10
    /\ lret
    /\ Cardinality(lfreed) = 1
    /\ ListSeq(ListState) = <<20, 10, 20>>
    /\ ~lerr

\* C9: over any interleaving of insert_front and insert_end calls from the
\* empty list, the list read from head to NULL is the abstract sequence
\* (insert_front prepends, insert_end appends), get_length returns the number
\* of nodes inserted, and insert_end on an empty list makes the new node the head.
C9_InsertsBuildSequence ==
    lop # "idle" =>
        /\ ~lerr
        /\ ListSeq(ListState) = absList
        /\ get_length(ListState) = Len(absList)
        /\ Cardinality(DOMAIN heap) = Len(absList)
        /\ head = NULL =>
               \A d \in ListValues, a \in Addr :
                   LET r == insert_end(ListState, d, a)
                   IN  r.head = a /\ ListSeq(r) = <<d>>

\* C9 witness: insert_end appended to a list that insert_front had built.
C9_Witness ==
    /\ lop = "insert_end"
    /\ Len(absList) = 3
    /\ absList[1] # absList[2]
    /\ absList[2] # absList[3]
    /\ ListSeq(ListState) = absList

\* Every allocated node is on the list: none is lost while still allocated.
NoNodeLost == DOMAIN heap = {Nodes(ListState)[i] : i \in 1..Len(Nodes(ListState))}

\* C10: after any sequence of insert_front, insert_end, insert_after,
\* delete_node and reverse_list, free_list(&head) leaves no node allocated and
\* frees none twice, *head is NULL, and a second free_list(&head) frees nothing.
C10_NoLeak ==
    lop # "idle" =>
        /\ ~lerr
        /\ NoNodeLost
        /\ LET once  == free_list(ListState)
               twice == free_list(once)
           IN  /\ once.head = NULL
               /\ DOMAIN once.heap = {}
               /\ ~once.err
               /\ twice = once
        /\ lop = "free_list" => (head = NULL /\ DOMAIN heap = {})
        /\ (lop = "free_list" /\ lfreed = {}) =>
               (free_list(ListState) = ListState /\ absList = <<>>)

\* C10 witness: free_list freed a list that filled the heap, one node after
\* the other; nothing is left allocated.
C10_Witness ==
    /\ lop = "free_list"
    /\ Cardinality(lfreed) = MaxNodes
    /\ head = NULL
    /\ DOMAIN heap = {}
    /\ ~lerr

\* ============================================================ ex03_file_copy.c
\* main and copy_file, one step per library call.  The two files are distinct
\* (source and destination naming the same file is not modelled).

Bytes == {0, 1}

\* What create_test_file writes: a text shorter than one buffer.
DemoBytes == <<1>>

\* A destination that already exists before the copy holds these bytes.
OldDestBytes == <<1, 0, 1>>

FileOf(bs) == [exists |-> TRUE, bytes |-> bs]

Min(a, b) == IF a < b THEN a ELSE b

\* The first n elements of s.
Take(s, n) == SubSeq(s, 1, n)

\* main has not returned yet.
NotReturned == 0 - 1

InitFile ==
    /\ argc \in 1..4
    /\ fpc = "main"
    /\ fmode = "none"
    /\ fsrc \in {NoFile} \cup {FileOf(bs) : bs \in SeqsUpTo(Bytes, MaxFileLen)}
    /\ fdst \in {NoFile, FileOf(OldDestBytes)}
    /\ srcOrig = <<>>
    /\ dstOrig = NoFile
    /\ srcOpen = FALSE
    /\ dstOpen = FALSE
    /\ rpos = 0
    /\ rerr = FALSE
    /\ sizeKnown = FALSE
    /\ cres = 0
    /\ cfail = "none"
    /\ fcalls = {}
    /\ mainRet = NotReturned

\* main, line 238: the user's files are copied only when argc == 3.
UserMode(n) == n = 3

\* main, lines 238-262: the branch on argc; the demo branch goes on to create_test_file.
MainStart ==
    /\ fpc = "main"
    /\ fmode' = IF UserMode(argc) THEN "user" ELSE "demo"
    /\ fpc' = IF UserMode(argc) THEN "call_copy" ELSE "create"
    /\ UNCHANGED <<argc, fsrc, fdst, srcOrig, dstOrig, srcOpen, dstOpen, rpos, rerr, sizeKnown,
                   cres, cfail, fcalls, mainRet, exceptFile>>

\* create_test_file: fopen(filename, "w") either fails, and the function returns
\* at once, or truncates the file, which then receives the test content.
create_test_file(f, openOk) == IF openOk THEN FileOf(DemoBytes) ELSE f

MainCreateTestFile(openOk) ==
    /\ fpc = "create"
    /\ fsrc' = create_test_file(fsrc, openOk)
    /\ fcalls' = fcalls \cup {"create_test_file"}
    /\ fpc' = "call_copy"
    /\ UNCHANGED <<argc, fmode, fdst, srcOrig, dstOrig, srcOpen, dstOpen, rpos, rerr, sizeKnown,
                   cres, cfail, mainRet, exceptFile>>

\* copy_file, lines 61-72: result = -1, then malloc(BUFFER_SIZE); a NULL buffer
\* returns -1 at once, without going through cleanup.
CopyAlloc(mallocOk) ==
    /\ fpc = "call_copy"
    /\ fcalls' = fcalls \cup {"copy_file"}
    /\ srcOrig' = fsrc.bytes
    /\ dstOrig' = fdst
    /\ cres' = 0 - 1
    /\ cfail' = IF mallocOk THEN "none" ELSE "alloc"
    /\ fpc' = IF mallocOk THEN "open_src" ELSE "after_copy"
    /\ UNCHANGED <<argc, fmode, fsrc, fdst, srcOpen, dstOpen, rpos, rerr, sizeKnown,
                   mainRet, exceptFile>>

\* copy_file going on to open the destination when the source did not open.
OpenSourceFailedOpensDest == "open_dst"

\* copy_file, line 78: goto cleanup when the source did not open.
OpenSourceFailed == "cleanup"

\* copy_file, lines 75-79: fopen(source_path, "rb").
CopyOpenSource(openOk) ==
    /\ fpc = "open_src"
    /\ IF fsrc.exists /\ openOk
       THEN /\ srcOpen' = TRUE
            /\ rpos' = 0
            /\ fpc' = "size"
            /\ UNCHANGED cfail
       ELSE /\ cfail' = "open_src"
            /\ fpc' = OpenSourceFailed
            /\ UNCHANGED <<srcOpen, rpos>>
    /\ UNCHANGED <<argc, fmode, fsrc, fdst, srcOrig, dstOrig, dstOpen, rerr, sizeKnown, cres,
                   fcalls, mainRet, exceptFile>>

\* get_file_size: ftell's answer, or -1 when it cannot tell; rewinds the stream.
get_file_size(f, tellOk) == IF tellOk THEN Len(f.bytes) ELSE 0 - 1

\* copy_file, lines 82-86.
CopyFileSize(tellOk) ==
    /\ fpc = "size"
    /\ IF get_file_size(fsrc, tellOk) < 0
       THEN /\ cfail' = "size"
            /\ fpc' = "cleanup"
            /\ UNCHANGED sizeKnown
       ELSE /\ sizeKnown' = TRUE
            /\ fpc' = "open_dst"
            /\ UNCHANGED cfail
    /\ rpos' = 0
    /\ UNCHANGED <<argc, fmode, fsrc, fdst, srcOrig, dstOrig, srcOpen, dstOpen, rerr, cres,
                   fcalls, mainRet, exceptFile>>

\* copy_file, lines 91-95: fopen(dest_path, "wb") creates the file or empties it.
CopyOpenDest(openOk) ==
    /\ fpc = "open_dst"
    /\ IF openOk
       THEN /\ fdst' = FileOf(<<>>)
            /\ dstOpen' = TRUE
            /\ fpc' = "loop"
            /\ UNCHANGED cfail
       ELSE /\ cfail' = "open_dst"
            /\ fpc' = "cleanup"
            /\ UNCHANGED <<fdst, dstOpen>>
    /\ UNCHANGED <<argc, fmode, fsrc, srcOrig, dstOrig, srcOpen, rpos, rerr, sizeKnown, cres,
                   fcalls, mainRet, exceptFile>>

\* The bytes fread can still deliver into the buffer.
Available == Min(BufSize, Len(fsrc.bytes) - rpos)

\* The counts fread(buffer, 1, BUFFER_SIZE, source) can return: everything
\* available, or, when the read fails, any part of it (the error indicator is set).
FreadCounts(readFails) == IF readFails THEN 0..Available ELSE {Available}

\* The counts fwrite can return for a chunk of n bytes.
FwriteCounts(n, writeFails) == IF writeFails THEN 0..(n - 1) ELSE {n}

\* copy_file, line 116: a chunk written short ends the copy.
WrittenShort(bytes_written, bytes_read) == bytes_written # bytes_read

\* copy_file, lines 105-124: one turn of the read/write loop.
CopyChunk(readFails, writeFails) ==
    /\ fpc = "loop"
    /\ \E bytes_read \in FreadCounts(readFails) :
          /\ rerr' = (rerr \/ readFails)
          /\ IF bytes_read > 0
             THEN \E bytes_written \in FwriteCounts(bytes_read, writeFails) :
                     /\ fdst' = FileOf(fdst.bytes \o
                                       SubSeq(fsrc.bytes, rpos + 1, rpos + bytes_written))
                     /\ rpos' = rpos + bytes_read
                     /\ IF WrittenShort(bytes_written, bytes_read)
                        THEN cfail' = "short_write" /\ fpc' = "cleanup"
                        ELSE UNCHANGED cfail /\ fpc' = "loop"
             ELSE /\ fpc' = "ferror"
                  /\ UNCHANGED <<fdst, rpos, cfail>>
    /\ UNCHANGED <<argc, fmode, fsrc, srcOrig, dstOrig, srcOpen, dstOpen, sizeKnown, cres,
                   fcalls, mainRet, exceptFile>>

\* copy_file, line 129: ferror(source).
ReadFailed(e) == e

\* copy_file, lines 129-135: a flagged read error ends in cleanup with result
\* still -1; otherwise result = 0.
CopyCheckError ==
    /\ fpc = "ferror"
    /\ IF ReadFailed(rerr)
       THEN cfail' = "read_error" /\ UNCHANGED cres
       ELSE cres' = 0 /\ UNCHANGED cfail
    /\ fpc' = "cleanup"
    /\ UNCHANGED <<argc, fmode, fsrc, fdst, srcOrig, dstOrig, srcOpen, dstOpen, rpos, rerr,
                   sizeKnown, fcalls, mainRet, exceptFile>>

\* What fclose(dest) leaves in the file: every byte handed to fwrite when the
\* final flush succeeds; when the flush fails, the bytes of the last chunk still
\* held in the stream's buffer are lost.
fclose_dest(f, flushOk) ==
    IF flushOk \/ f.bytes = <<>>
    THEN {f}
    ELSE {FileOf(Take(f.bytes, Len(f.bytes) - lost)) : lost \in 1..Min(BufSize, Len(f.bytes))}

\* copy_file, lines 137-148: free(buffer), fclose(dest), fclose(source), whose
\* return values are not looked at, then return result.
CopyCleanup(flushOk) ==
    /\ fpc = "cleanup"
    /\ IF dstOpen
       THEN fdst' \in fclose_dest(fdst, flushOk)
       ELSE UNCHANGED fdst
    /\ srcOpen' = FALSE
    /\ dstOpen' = FALSE
    /\ fpc' = "after_copy"
    /\ UNCHANGED <<argc, fmode, fsrc, srcOrig, dstOrig, rpos, rerr, sizeKnown, cres, cfail,
                   fcalls, mainRet, exceptFile>>

\* main, lines 247 and 267: verify_copy is called when copy_file returned 0.
VerifyCalledAlways(ret) == TRUE

VerifyCalled(ret) == ret = 0

\* main, lines 246-251 and 266-270: back from copy_file.
MainAfterCopy ==
    /\ fpc = "after_copy"
    /\ fcalls' = IF VerifyCalled(cres) THEN fcalls \cup {"verify_copy"} ELSE fcalls
    /\ fpc' = IF fmode = "demo" THEN "remove_src" ELSE "return"
    /\ UNCHANGED <<argc, fmode, fsrc, fdst, srcOrig, dstOrig, srcOpen, dstOpen, rpos, rerr,
                   sizeKnown, cres, cfail, mainRet, exceptFile>>

\* main, line 273: remove(test_file).
MainRemoveSource ==
    /\ fpc = "remove_src"
    /\ fsrc' = NoFile
    /\ fcalls' = fcalls \cup {"remove_source"}
    /\ fpc' = "remove_dst"
    /\ UNCHANGED <<argc, fmode, fdst, srcOrig, dstOrig, srcOpen, dstOpen, rpos, rerr, sizeKnown,
                   cres, cfail, mainRet, exceptFile>>

\* main, line 274: remove(copy_file_path).
MainRemoveCopy ==
    /\ fpc = "remove_dst"
    /\ fdst' = NoFile
    /\ fcalls' = fcalls \cup {"remove_copy"}
    /\ fpc' = "return"
    /\ UNCHANGED <<argc, fmode, fsrc, srcOrig, dstOrig, srcOpen, dstOpen, rpos, rerr, sizeKnown,
                   cres, cfail, mainRet, exceptFile>>

\* main, line 286: return 0.
MainReturn ==
    /\ fpc = "return"
    /\ mainRet' = 0
    /\ fpc' = "done"
    /\ UNCHANGED <<argc, fmode, fsrc, fdst, srcOrig, dstOrig, srcOpen, dstOpen, rpos, rerr,
                   sizeKnown, cres, cfail, fcalls, exceptFile>>

NextFile ==
    \/ MainStart
    \/ \E openOk \in BOOLEAN : MainCreateTestFile(openOk)
    \/ \E mallocOk \in BOOLEAN : CopyAlloc(mallocOk)
    \/ \E openOk \in BOOLEAN : CopyOpenSource(openOk)
    \/ \E tellOk \in BOOLEAN : CopyFileSize(tellOk)
    \/ \E openOk \in BOOLEAN : CopyOpenDest(openOk)
    \/ \E readFails, writeFails \in BOOLEAN : CopyChunk(readFails, writeFails)
    \/ CopyCheckError
    \/ \E flushOk \in BOOLEAN : CopyCleanup(flushOk)
    \/ MainAfterCopy
    \/ MainRemoveSource
    \/ MainRemoveCopy
    \/ MainReturn

FileInit == InitFile /\ IdleExceptFile

SpecFile == FileInit /\ [][NextFile]_vars

\* main runs to its end: every step that is enabled is eventually taken.
SpecFileFair == SpecFile /\ WF_vars(NextFile)

\* copy_file has returned to main.
CopyReturned == fpc \in {"after_copy", "remove_src", "remove_dst", "return", "done"}

TempFileCalls == {"create_test_file", "remove_source", "remove_copy"}

\* With argc == 3 main only copies and verifies; otherwise it is the demo.
MainModes ==
    /\ fmode = "user" => argc = 3 /\ fcalls \cap TempFileCalls = {}
    /\ fmode = "demo" => argc # 3

\* When the demo is over both temporary files were created, copied and removed.
DemoCleansUp ==
    (fpc = "done" /\ fmode = "demo") =>
        /\ {"create_test_file", "copy_file", "remove_source", "remove_copy"} \subseteq fcalls
        /\ ~fsrc.exists
        /\ ~fdst.exists

\* verify_copy is only ever called once copy_file has returned 0.
VerifyOnlyAfterSuccess == "verify_copy" \in fcalls => CopyReturned /\ cres = 0

MainReturnsZero == fpc = "done" => mainRet = 0

\* C11: main copies the user's files only when argc == 3, and then calls none of
\* create_test_file / remove; with any other argc the demo creates
\* test_source.txt, attempts the copy and removes both files before it exits,
\* whether or not the copy succeeded; verify_copy is called only after copy_file
\* returned 0; main runs to its end and returns 0.
C11_MainFlow ==
    /\ [](MainModes /\ DemoCleansUp /\ VerifyOnlyAfterSuccess /\ MainReturnsZero)
    /\ <>(fpc = "done")

\* The demo ended after a copy that failed, and both files are gone.
C11_Witness ==
    /\ fpc = "done"
    /\ fmode = "demo"
    /\ cres # 0
    /\ cfail = "short_write"
    /\ fcalls = {"create_test_file", "copy_file", "remove_source", "remove_copy"}
    /\ ~fsrc.exists
    /\ ~fdst.exists
    /\ mainRet = 0

\* copy_file's failures all come back as -1.
FailureReturnsMinusOne ==
    fpc = "after_copy" =>
        /\ cres \in {0, 0 - 1}
        /\ (cfail # "none" \/ rerr) => cres = 0 - 1

\* C12: copy_file returns 0 only when the destination holds exactly the
\* source's bytes, in order, for every source length (0, shorter than the
\* buffer, a multiple of it, a multiple plus a remainder), and returns -1 when
\* the buffer cannot be allocated, a file cannot be opened, the size cannot be
\* determined, a chunk is written short or a read error is flagged.
C12_CopyFileResult ==
    /\ FailureReturnsMinusOne
    /\ (fpc = "after_copy" /\ cres = 0) => fdst = FileOf(srcOrig)

\* copy_file has been called: it is running or has just returned to main.
InCopyFile == fpc \in {"open_src", "size", "open_dst", "loop", "ferror", "cleanup", "after_copy"}

\* C21: copy_file never opens the destination for writing, and so never
\* creates or truncates it, unless the source has been opened and its size
\* determined: until then, and for good when the source cannot be opened, the
\* destination file is exactly as it was before the call.
C21_DestOpenedLast ==
    /\ dstOpen => srcOpen /\ sizeKnown
    /\ (InCopyFile /\ ~sizeKnown) => ~dstOpen /\ fdst = dstOrig
    /\ (InCopyFile /\ cfail = "open_src") => ~sizeKnown /\ fdst = dstOrig

\* copy_file returned after the source, which exists, could not be opened; the
\* destination that existed before still holds its old bytes.
C21_Witness ==
    /\ fpc = "after_copy"
    /\ cfail = "open_src"
    /\ cres = 0 - 1
    /\ fsrc.exists
    /\ dstOrig = FileOf(OldDestBytes)
    /\ fdst = FileOf(OldDestBytes)

\* ================================================================ uint32_t
\* A 32-bit unsigned word is the set of the positions of its 1 bits (0 the
\* least significant).

WordBits == 32

BitIdx == 0..(WordBits - 1)

\* The word whose set bits are exactly those of S.
WordOf(S) == S \cap BitIdx

\* Bit i of w.
Bit(w, i) == IF i \in w THEN 1 ELSE 0

Zero32 == WordOf({})

AllOnes32 == WordOf(BitIdx)

\* The word of a number 0 <= n < 2^31 written in the source.
U32(n) == {i \in 0..(WordBits - 2) : (n \div (2 ^ i)) % 2 = 1}

And32(a, b) == a \cap b

Or32(a, b) == a \cup b

Xor32(a, b) == (a \ b) \cup (b \ a)

Not32(a) == BitIdx \ a

\* a << n and a >> n on unsigned words, for 0 <= n < 32.
Shl32(a, n) == {i \in BitIdx : i >= n /\ (i - n) \in a}

Shr32(a, n) == {i \in BitIdx : (i + n) \in a}

\* The bits of a - b from position i upwards, given the borrow into position i.
RECURSIVE SubFrom(_, _, _, _)
SubFrom(a, b, i, borrow) ==
    IF i = WordBits THEN {}
    ELSE LET d == Bit(a, i) - Bit(b, i) - borrow
         IN  (IF (d + 2) % 2 = 1 THEN {i} ELSE {})
                \cup SubFrom(a, b, i + 1, IF d < 0 THEN 1 ELSE 0)

\* a - b modulo 2^32.
Sub32(a, b) == SubFrom(a, b, 0, 0)

\* ========================================================== volatile_keyword.c
\* main, one step per statement.  A busy-wait loop re-reads its flag on every
\* turn: while the flag is clear the loop takes a step that changes nothing,
\* and it is left by the step that finds the flag set.

\* Contents the GPIOA registers may hold when main reaches them.
RegValues == {Zero32, AllOnes32, WordOf({10, 11}), WordOf({5}), WordOf({0, 11, 31})}

InitVol ==
    /\ vpc = "main"
    /\ simulated_hardware_register = 0
    /\ data_ready = FALSE
    /\ GPIOA_MODER \in RegValues
    /\ GPIOA_ODR \in RegValues

\* main, line 319: simulated_hardware_register = 0.
MainClearRegister ==
    /\ vpc = "main"
    /\ simulated_hardware_register' = 0
    /\ vpc' = "hw_update"
    /\ UNCHANGED <<data_ready, GPIOA_MODER, GPIOA_ODR, exceptVol>>

\* simulate_hardware_update: simulated_hardware_register = 0xFF.
simulate_hardware_update ==
    /\ vpc = "hw_update"
    /\ simulated_hardware_register' = 255
    /\ vpc' = "wait_hw"
    /\ UNCHANGED <<data_ready, GPIOA_MODER, GPIOA_ODR, exceptVol>>

\* wait_for_hardware_correct: while (*status_register == 0) { } is left when
\* the register reads non-zero.
wait_for_hardware_correct ==
    /\ vpc = "wait_hw"
    /\ simulated_hardware_register # 0
    /\ vpc' = "gpio_output"
    /\ UNCHANGED <<simulated_hardware_register, data_ready, GPIOA_MODER, GPIOA_ODR, exceptVol>>

\* gpio_pin_set_output, lines 124-133: mode &= ~(0x3 << (pin * 2)); mode |= (0x1 << (pin * 2)).
PinModeOutput(mode, pin) ==
    Or32(And32(mode, Not32(Shl32(U32(3), pin * 2))), Shl32(U32(1), pin * 2))

\* gpio_pin_set_output(5) reads and writes the word at 0x40020000 through a
\* pointer made from that integer.  Where the address is the GPIOA mode
\* register the access goes through; where nothing is mapped there (the hosted
\* build of the COMPILATION line) it is an invalid access and the program stops.
gpio_pin_set_output(pin, mapped) ==
    /\ vpc = "gpio_output"
    /\ IF mapped
       THEN /\ GPIOA_MODER' = PinModeOutput(GPIOA_MODER, pin)
            /\ vpc' = "gpio_toggle"
       ELSE /\ vpc' = "fault"
            /\ UNCHANGED GPIOA_MODER
    /\ UNCHANGED <<simulated_hardware_register, data_ready, GPIOA_ODR, exceptVol>>

\* gpio_toggle_pin: GPIOA_ODR ^= (1 << pin).
gpio_toggle_pin(pin) ==
    /\ vpc = "gpio_toggle"
    /\ GPIOA_ODR' = Xor32(GPIOA_ODR, Shl32(U32(1), pin))
    /\ vpc' = "uart_clear"
    /\ UNCHANGED <<simulated_hardware_register, data_ready, GPIOA_MODER, exceptVol>>

\* main, line 340: data_ready = false.
MainClearDataReady ==
    /\ vpc = "uart_clear"
    /\ data_ready' = FALSE
    /\ vpc' = "irq"
    /\ UNCHANGED <<simulated_hardware_register, GPIOA_MODER, GPIOA_ODR, exceptVol>>

\* UART_IRQHandler: data_ready = true.
UART_IRQHandler ==
    /\ vpc = "irq"
    /\ data_ready' = TRUE
    /\ vpc' = "wait_uart"
    /\ UNCHANGED <<simulated_hardware_register, GPIOA_MODER, GPIOA_ODR, exceptVol>>

\* wait_for_uart_data: while (!data_ready) { } then data_ready = false.
wait_for_uart_data ==
    /\ vpc = "wait_uart"
    /\ data_ready
    /\ data_ready' = FALSE
    /\ vpc' = "rest"
    /\ UNCHANGED <<simulated_hardware_register, GPIOA_MODER, GPIOA_ODR, exceptVol>>

\* main, lines 346-366: the two counted loops of the performance tests, the
\* pitfalls example and return 0.
MainRest ==
    /\ vpc = "rest"
    /\ vpc' = "done"
    /\ UNCHANGED <<simulated_hardware_register, data_ready, GPIOA_MODER, GPIOA_ODR, exceptVol>>

NextVol ==
    \/ MainClearRegister
    \/ simulate_hardware_update
    \/ wait_for_hardware_correct
    \/ \E mapped \in BOOLEAN : gpio_pin_set_output(5, mapped)
    \/ gpio_toggle_pin(5)
    \/ MainClearDataReady
    \/ UART_IRQHandler
    \/ wait_for_uart_data
    \/ MainRest

VolInit == InitVol /\ IdleExceptVol

SpecVol == VolInit /\ [][NextVol]_vars

\* main keeps running: a step that is enabled is eventually taken.
SpecVolFair == SpecVol /\ WF_vars(NextVol)

\* Each busy-wait finds its flag already set when it is reached, and
\* data_ready is false once wait_for_uart_data has returned.
BusyWaitsFindFlagSet ==
    /\ vpc = "wait_hw" => simulated_hardware_register # 0
    /\ vpc = "wait_uart" => data_ready
    /\ vpc \in {"rest", "done"} => ~data_ready

\* C13: the demo runs to completion: every busy-wait that main reaches
\* terminates because its flag was set before the wait started, data_ready is
\* false again when wait_for_uart_data returns, and main reaches its end.
C13_DemoCompletes == []BusyWaitsFindFlagSet /\ <>(vpc = "done")

\* ============================================================ bit_manipulation.c
\* field_read and field_write as functions on words; main's call pattern
\* (lines 532-541) with the register, the field and the value drawn from sets.

\* main, line 534: config = 0x12345678.
DemoConfig == U32(305419896)

\* Register contents and values written.
FieldWords == {DemoConfig, Zero32, AllOnes32, U32(10)}

\* The fields of a 32-bit register: 1 <= num_bits <= 31 and start_bit + num_bits <= 32.
FieldShapes == {s \in [start : BitIdx, num : 1..(WordBits - 1)] : s.start + s.num <= WordBits}

\* mask = (1U << num_bits) - 1.
FieldMask(n) == Sub32(Shl32(U32(1), n), U32(1))

\* field_read: (reg >> start_bit) & mask.
field_read(reg, start, n) == And32(Shr32(reg, start), FieldMask(n))

\* field_write, line 190: *reg &= ~(mask << start_bit).
ClearFieldKept(reg, start, n) == reg

ClearField(reg, start, n) == And32(reg, Not32(Shl32(FieldMask(n), start)))

\* field_write: clear the field, then *reg |= ((value & mask) << start_bit).
field_write(reg, start, n, v) ==
    Or32(ClearField(reg, start, n), Shl32(And32(v, FieldMask(n)), start))

InitBm ==
    /\ bmPc = "ready"
    /\ config \in FieldWords
    /\ configOld = {}
    /\ start_bit = 0
    /\ num_bits = 0
    /\ fvalue = {}
    /\ field = {}

\* field_write(&config, start, n, v).
FieldWrite(start, n, v) ==
    /\ bmPc = "ready"
    /\ configOld' = config
    /\ config' = field_write(config, start, n, v)
    /\ start_bit' = start
    /\ num_bits' = n
    /\ fvalue' = v
    /\ bmPc' = "written"
    /\ UNCHANGED <<field, exceptBm>>

\* field = field_read(config, start_bit, num_bits), on the field just written.
FieldRead ==
    /\ bmPc = "written"
    /\ field' = field_read(config, start_bit, num_bits)
    /\ bmPc' = "read"
    /\ UNCHANGED <<config, configOld, start_bit, num_bits, fvalue, exceptBm>>

NextBm ==
    \/ \E s \in FieldShapes, v \in FieldWords : FieldWrite(s.start, s.num, v)
    \/ FieldRead

BmInit == InitBm /\ IdleExceptBm

SpecBm == BmInit /\ [][NextBm]_vars

\* Bit i lies in the field written.
InField(i) == start_bit <= i /\ i < start_bit + num_bits

\* C14: for a 32-bit register, 1 <= num_bits <= 31, start_bit + num_bits <= 32
\* and any 32-bit value, field_write leaves every bit outside the field as it
\* was and the field holds value mod 2^num_bits, which field_read returns.
C14_FieldWriteFrame ==
    /\ bmPc \in {"written", "read"} =>
          \A i \in BitIdx :
             Bit(config, i) = IF InField(i) THEN Bit(fvalue, i - start_bit)
                                             ELSE Bit(configOld, i)
    /\ bmPc = "read" =>
          \A j \in BitIdx : Bit(field, j) = IF j < num_bits THEN Bit(fvalue, j) ELSE 0

\* main's demo: 0xA written to bits 8-11 of 0x12345678 gives 0x12345A78, read back as 0xA.
C14_Witness ==
    /\ bmPc = "read"
    /\ configOld = DemoConfig
    /\ start_bit = 8
    /\ num_bits = 4
    /\ fvalue = U32(10)
    /\ config = U32(305420920)
    /\ field = U32(10)

\* ============================================================ memory_mapped_io.c
\* The GPIO control functions on a register block (GPIO_TypeDef).

\* Pins of a port: 0..NumPins-1.
NumPins == 16

Pins == 0..(NumPins - 1)

RegNames == {"MODER", "OTYPER", "OSPEEDR", "PUPDR", "IDR", "ODR", "BSRR", "LCKR", "AFRL", "AFRH"}

\* A block whose configuration registers hold m, t, s, p and whose other
\* registers all hold o.
Block(m, t, s, p, o) ==
    [MODER |-> m, OTYPER |-> t, OSPEEDR |-> s, PUPDR |-> p, IDR |-> o, ODR |-> o,
     BSRR |-> o, LCKR |-> o, AFRL |-> o, AFRH |-> o]

\* Prior register contents.
PriorWords == {Zero32, AllOnes32, WordOf({0, 3, 10, 11, 17, 30})}

GPIO_MODE_OUTPUT == 1

GPIO_SPEED_HIGH == 2

GPIO_PUPD_NONE == 0

\* 0x3U << (pin * 2), the mask of the pin's 2-bit field.
PinFieldMaskUnscaled(pin) == Shl32(U32(3), pin)

PinFieldMask(pin) == Shl32(U32(3), pin * 2)

\* c << (pin * 2) for an int constant c.  For c = 2 and pin = 15 the result,
\* 2^31, is not an int; gcc, the compiler both files name, defines the shift
\* to give the bit pattern, which the conversion to uint32_t keeps.
PinFieldValue(c, pin) == Shl32(U32(c), pin * 2)

\* reg &= ~(0x3U << (pin * 2)); reg |= (c << (pin * 2)).
SetPinField(reg, pin, c) == Or32(And32(reg, Not32(PinFieldMask(pin))), PinFieldValue(c, pin))

\* gpio_init_output: MODER, OTYPER, OSPEEDR, PUPDR in turn.
gpio_init_output(g, pin) ==
    [g EXCEPT !.MODER = SetPinField(g.MODER, pin, GPIO_MODE_OUTPUT),
              !.OTYPER = And32(g.OTYPER, Not32(Shl32(U32(1), pin))),
              !.OSPEEDR = SetPinField(g.OSPEEDR, pin, GPIO_SPEED_HIGH),
              !.PUPDR = SetPinField(g.PUPDR, pin, GPIO_PUPD_NONE)]

\* bit_manipulation.c, gpio_configure_output: MODER, OTYPER, OSPEEDR.
gpio_configure_output(g, pin) ==
    [g EXCEPT !.MODER = SetPinField(g.MODER, pin, GPIO_MODE_OUTPUT),
              !.OTYPER = And32(g.OTYPER, Not32(Shl32(U32(1), pin))),
              !.OSPEEDR = SetPinField(g.OSPEEDR, pin, GPIO_SPEED_HIGH)]

\* No interrupt has run.
NoIrq == 0 - 1

InitMmio ==
    /\ gpio \in {Block(m, t, s, p, o) : m, t, s, p \in PriorWords, o \in {Zero32, AllOnes32}}
    /\ gpioOld = <<>>
    /\ mpc = "config"
    /\ mfun = "none"
    /\ mpin = 0
    /\ odrTmp = {}
    /\ irqBit = NoIrq
    /\ irqWhen = "idle"
    /\ irqValue = 0

GpioInitOutput(pin) ==
    /\ mpc = "config"
    /\ gpioOld' = gpio
    /\ gpio' = gpio_init_output(gpio, pin)
    /\ mfun' = "gpio_init_output"
    /\ mpin' = pin
    /\ mpc' = "configured"
    /\ UNCHANGED <<odrTmp, irqBit, irqWhen, irqValue, exceptMmio>>

GpioConfigureOutput(pin) ==
    /\ mpc = "config"
    /\ gpioOld' = gpio
    /\ gpio' = gpio_configure_output(gpio, pin)
    /\ mfun' = "gpio_configure_output"
    /\ mpin' = pin
    /\ mpc' = "configured"
    /\ UNCHANGED <<odrTmp, irqBit, irqWhen, irqValue, exceptMmio>>

NextMmio ==
    \/ \E pin \in Pins : GpioInitOutput(pin)
    \/ \E pin \in Pins : GpioConfigureOutput(pin)

MmioInit == InitMmio /\ IdleExceptMmio

SpecMmio == MmioInit /\ [][NextMmio]_vars

\* The bits of register r that configuring pin p may change.
MayChange(r, p) ==
    CASE r \in {"MODER", "OSPEEDR", "PUPDR"} -> {2 * p, 2 * p + 1}
      [] r = "OTYPER" -> {p}
      [] OTHER -> {}

\* The 2-bit field of pin p in register word w, as a number.
PinField(w, p) == 2 * Bit(w, 2 * p + 1) + Bit(w, 2 * p)

\* C15: for every pin p in 0..15 and every prior register content,
\* gpio_init_output changes at most bits 2p and 2p+1 of MODER, OSPEEDR and PUPDR
\* and bit p of OTYPER, leaves IDR, ODR, BSRR, LCKR, AFRL and AFRH unchanged,
\* and afterwards the pin's MODER field is 01, its OTYPER bit 0, its OSPEEDR
\* field 10 and its PUPDR field 00 (gpio_configure_output: the same frame).
C15_ConfigureOnePin ==
    mpc = "configured" =>
        /\ \A r \in RegNames : Xor32(gpio[r], gpioOld[r]) \subseteq MayChange(r, mpin)
        /\ mfun = "gpio_init_output" =>
              /\ PinField(gpio.MODER, mpin) = 1
              /\ Bit(gpio.OTYPER, mpin) = 0
              /\ PinField(gpio.OSPEEDR, mpin) = 2
              /\ PinField(gpio.PUPDR, mpin) = 0

\* Pin 15 configured on a block whose registers were all ones.
C15_Witness ==
    /\ mpc = "configured"
    /\ mfun = "gpio_init_output"
    /\ mpin = 15
    /\ gpioOld = Block(AllOnes32, AllOnes32, AllOnes32, AllOnes32, AllOnes32)
    /\ gpio.MODER = AllOnes32 \ {31}
    /\ gpio.OTYPER = AllOnes32 \ {15}
    /\ gpio.OSPEEDR = AllOnes32 \ {30}
    /\ gpio.PUPDR = AllOnes32 \ {30, 31}
    /\ gpio.ODR = AllOnes32

\* ------------------------------------------------ gpio_set_odr, gpio_set_bsrr
\* gpio->ODR |= (1U << pin) is a load of ODR, an OR and a store, three
\* separate steps on a volatile register; an interrupt handler can run between
\* any two steps of the caller.  gpio->BSRR = (1U << pin) is one store.

\* ODR contents before the call.
OdrWords == {Zero32, WordOf(Pins), WordOf({1, 4, 9})}

InitOdr ==
    /\ gpio \in {Block(Zero32, Zero32, Zero32, Zero32, o) : o \in OdrWords}
    /\ gpioOld = <<>>
    /\ mpc = "ready"
    /\ mfun = "none"
    /\ mpin = 0
    /\ odrTmp = {}
    /\ irqBit = NoIrq
    /\ irqWhen = "idle"
    /\ irqValue = 0

\* gpio_set_odr, first step: the read of gpio->ODR.
SetOdrRead(pin) ==
    /\ mpc = "ready"
    /\ gpioOld' = gpio
    /\ odrTmp' = gpio.ODR
    /\ mfun' = "gpio_set_odr"
    /\ mpin' = pin
    /\ mpc' = "loaded"
    /\ UNCHANGED <<gpio, irqBit, irqWhen, irqValue, exceptMmio>>

\* The value the write-back ORs the mask into: the one read in the first step.
WriteBackSourceFresh(tmp, odr) == odr

WriteBackSource(tmp, odr) == tmp

\* gpio_set_odr, last step: the OR and the write-back to gpio->ODR.
SetOdrWrite ==
    /\ mpc = "loaded"
    /\ gpio' = [gpio EXCEPT !.ODR = Or32(WriteBackSource(odrTmp, gpio.ODR), Shl32(U32(1), mpin))]
    /\ mpc' = "done"
    /\ UNCHANGED <<gpioOld, mfun, mpin, odrTmp, irqBit, irqWhen, irqValue, exceptMmio>>

\* What the port does with a word w written to BSRR (lines 219-226): bits 0-15
\* of w set the same bits of ODR, bits 16-31 clear ODR bits 0-15.
BsrrEffect(odr, w) == Or32(And32(odr, Not32(Shr32(w, NumPins))), And32(w, WordOf(Pins)))

\* gpio_set_bsrr: the single write gpio->BSRR = (1U << pin).
SetBsrr(pin) ==
    /\ mpc = "ready"
    /\ gpioOld' = gpio
    /\ gpio' = [gpio EXCEPT !.BSRR = Shl32(U32(1), pin),
                            !.ODR = BsrrEffect(gpio.ODR, Shl32(U32(1), pin))]
    /\ mfun' = "gpio_set_bsrr"
    /\ mpin' = pin
    /\ mpc' = "done"
    /\ UNCHANGED <<odrTmp, irqBit, irqWhen, irqValue, exceptMmio>>

\* An interrupt handler that changes ODR bit q, once, at any point of the caller.
InterruptHandler(q) ==
    /\ mpc \in {"ready", "loaded", "done"}
    /\ irqBit = NoIrq
    /\ gpio' = [gpio EXCEPT !.ODR = Xor32(gpio.ODR, Shl32(U32(1), q))]
    /\ irqBit' = q
    /\ irqWhen' = mpc
    /\ irqValue' = 1 - Bit(gpio.ODR, q)
    /\ UNCHANGED <<gpioOld, mpc, mfun, mpin, odrTmp, exceptMmio>>

NextOdr ==
    \/ \E pin \in Pins : SetOdrRead(pin)
    \/ SetOdrWrite
    \/ \E pin \in Pins : SetBsrr(pin)
    \/ \E q \in Pins : InterruptHandler(q)

OdrInit == InitOdr /\ IdleExceptMmio

SpecOdr == OdrInit /\ [][NextOdr]_vars

\* The call is over and the handler ran, on another bit than the caller's.
HandlerRanOnOtherBit == mpc = "done" /\ irqBit # NoIrq /\ irqBit # mpin

\* C16: gpio_set_odr reads ODR, ORs and writes back in separate steps, so the
\* change an interrupt handler makes to a different ODR bit between the read
\* and the write-back is lost: the final ODR does not contain it.  gpio_set_bsrr
\* is a single write with no read step for an interrupt to fall into, and the
\* handler's change survives it.
C16_OdrNotAtomic ==
    /\ HandlerRanOnOtherBit =>
          IF irqWhen = "loaded"
          THEN Bit(gpio.ODR, irqBit) # irqValue
          ELSE Bit(gpio.ODR, irqBit) = irqValue
    /\ irqWhen = "loaded" => mfun = "gpio_set_odr"
    /\ (mpc = "done" /\ (irqBit = NoIrq \/ irqBit # mpin)) => Bit(gpio.ODR, mpin) = 1

\* The handler set bit 5 between gpio_set_odr's read and write-back of pin 3;
\* the final ODR has pin 3 set and bit 5 clear again.
C16_Witness ==
    /\ mpc = "done"
    /\ mfun = "gpio_set_odr"
    /\ mpin = 3
    /\ irqBit = 5
    /\ irqWhen = "loaded"
    /\ irqValue = 1
    /\ gpioOld.ODR = Zero32
    /\ gpio.ODR = WordOf({3})

\* ============================================================ storage_classes.c
\* get_singleton and callers that use the pointer it returns.

\* int data[100].
SingletonLen == 100

DataIdx == 0..(SingletonLen - 1)

\* The address of the static instance: one object for the whole run.
InstanceAddr == 1

\* What a caller stores into data through the pointer, and where.
CallerValues == {7, 8}

CallerIndices == {0, 1, 50, SingletonLen - 1}

\* static Singleton instance = {0}.
InitSc ==
    /\ instance = [initialized |-> 0, data |-> [i \in DataIdx |-> 0]]
    /\ scCalls = 0
    /\ initRuns = 0
    /\ returned = {}
    /\ written = {}

\* get_singleton, line 332: if (!instance.initialized).
NeedsInitAlways(inst) == TRUE

NeedsInit(inst) == inst.initialized = 0

\* get_singleton, lines 334-337: data[i] = i for every i, then initialized = 1.
Initialise(inst) == [initialized |-> 1, data |-> [i \in DataIdx |-> i]]

\* One call of get_singleton; it returns &instance.
GetSingleton ==
    /\ scCalls >= 0
    /\ scCalls < MaxCalls
    /\ IF NeedsInit(instance)
       THEN /\ instance' = Initialise(instance)
            /\ initRuns' = initRuns + 1
       ELSE UNCHANGED <<instance, initRuns>>
    /\ returned' = returned \cup {InstanceAddr}
    /\ scCalls' = scCalls + 1
    /\ UNCHANGED <<written, exceptSc>>

\* A caller holding the returned pointer stores v into s->data[i].
CallerStore(i, v) ==
    /\ InstanceAddr \in returned
    /\ instance' = [instance EXCEPT !.data[i] = v]
    /\ written' = written \cup {i}
    /\ UNCHANGED <<scCalls, initRuns, returned, exceptSc>>

NextSc ==
    \/ GetSingleton
    \/ \E i \in CallerIndices, v \in CallerValues : CallerStore(i, v)

ScInit == InitSc /\ IdleExceptSc

SpecSc == ScInit /\ [][NextSc]_vars

\* C17: the initialisation block of get_singleton runs exactly once, on the
\* first call; every call returns the same address; and after every call
\* initialized == 1 and data[i] == i for every i in 0..99 the caller has not
\* stored to.
C17_SingletonInitOnce ==
    /\ initRuns = IF scCalls = 0 THEN 0 ELSE 1
    /\ Cardinality(returned) <= 1
    /\ scCalls >= 1 =>
          /\ instance.initialized = 1
          /\ \A i \in DataIdx \ written : instance.data[i] = i

\* After a second call that followed a caller's store: still one
\* initialisation, and the stored value is still there.
C17_Witness ==
    /\ scCalls = 2
    /\ initRuns = 1
    /\ written = {50}
    /\ instance.data[50] = 7
    /\ instance.data[SingletonLen - 1] = SingletonLen - 1
    /\ returned = {InstanceAddr}

\* =========================================================== array_operations.c
\* rotate_left, rotate_right and reverse_subarray.  An array is its storage,
\* a sequence longer than size, so that a store past size - 1 shows; a rotation
\* state is [a, oob].

\* The storage has room for one element more than the largest size.
RotStorage == MaxRotLen + 1

\* Storage contents: all elements distinct, or with repeated values.
RotInputs == {[i \in 1..RotStorage |-> 10 * i], [i \in 1..RotStorage |-> i % 2]}

RECURSIVE reverse_subarray(_, _, _)
\* while (start < end) { swap arr[start], arr[end]; start++; end--; }
reverse_subarray(a, start, end) ==
    IF start < end THEN reverse_subarray(Swap(a, start, end), start + 1, end - 1) ELSE a

\* if (positions > MAX_ROTATE_BUFFER): the rotation is done by three reversals.
UseReversalNever(positions) == FALSE

UseReversal(positions) == positions > MaxRotateBuffer

RECURSIVE RotSaveTemp(_, _, _, _, _)
\* for (i = 0; i < positions; i++) temp[i] = arr[from + i];   st = [temp, oob]
RotSaveTemp(st, a, from, positions, i) ==
    IF i < positions
    THEN IF i >= MaxRotateBuffer
         THEN [st EXCEPT !.oob = TRUE]
         ELSE RotSaveTemp([st EXCEPT !.temp = Append(st.temp, a[from + i + 1])],
                          a, from, positions, i + 1)
    ELSE st

RECURSIVE RotShiftLeft(_, _, _, _)
\* for (i = 0; i < size - positions; i++) arr[i] = arr[i + positions];
RotShiftLeft(a, n, positions, i) ==
    IF i < n - positions
    THEN RotShiftLeft([a EXCEPT ![i + 1] = a[i + positions + 1]], n, positions, i + 1)
    ELSE a

RECURSIVE RotShiftRight(_, _, _)
\* for (i = size - 1; i >= positions; i--) arr[i] = arr[i - positions];
RotShiftRight(a, positions, i) ==
    IF i >= positions
    THEN RotShiftRight([a EXCEPT ![i + 1] = a[i - positions + 1]], positions, i - 1)
    ELSE a

RECURSIVE RotRestoreTemp(_, _, _, _, _)
\* for (i = 0; i < positions; i++) arr[to + i] = temp[i];
RotRestoreTemp(a, temp, to, positions, i) ==
    IF i < positions
    THEN RotRestoreTemp([a EXCEPT ![to + i + 1] = temp[i + 1]], temp, to, positions, i + 1)
    ELSE a

rotate_left(a, n, positions0) ==
    IF n = 0 THEN [a |-> a, oob |-> FALSE]
    ELSE LET positions == positions0 % n
         IN  IF positions = 0 THEN [a |-> a, oob |-> FALSE]
             ELSE IF UseReversal(positions)
             THEN [a |-> reverse_subarray(
                            reverse_subarray(
                               reverse_subarray(a, 0, positions - 1),
                               positions, n - 1),
                            0, n - 1),
                   oob |-> FALSE]
             ELSE LET saved == RotSaveTemp([temp |-> <<>>, oob |-> FALSE], a, 0, positions, 0)
                  IN  IF saved.oob THEN [a |-> a, oob |-> TRUE]
                      ELSE [a |-> RotRestoreTemp(RotShiftLeft(a, n, positions, 0),
                                                 saved.temp, n - positions, positions, 0),
                            oob |-> FALSE]

rotate_right(a, n, positions0) ==
    IF n = 0 THEN [a |-> a, oob |-> FALSE]
    ELSE LET positions == positions0 % n
         IN  IF positions = 0 THEN [a |-> a, oob |-> FALSE]
             ELSE IF UseReversal(positions)
             THEN [a |-> reverse_subarray(
                            reverse_subarray(
                               reverse_subarray(a, 0, n - 1),
                               0, positions - 1),
                            positions, n - 1),
                   oob |-> FALSE]
             ELSE LET saved == RotSaveTemp([temp |-> <<>>, oob |-> FALSE], a,
                                           n - positions, positions, 0)
                  IN  IF saved.oob THEN [a |-> a, oob |-> TRUE]
                      ELSE [a |-> RotRestoreTemp(RotShiftRight(a, positions, n - 1),
                                                 saved.temp, 0, positions, 0),
                            oob |-> FALSE]

InitRot ==
    /\ rotArr \in RotInputs
    /\ rotOld = rotArr
    /\ rotSize \in 0..MaxRotLen
    /\ rotPos = 0
    /\ rotOp = "none"
    /\ rotPc = "ready"
    /\ rotOob = FALSE

\* rotate_left(arr, size, positions).
RotateLeft(positions) ==
    /\ rotPc = "ready"
    /\ LET r == rotate_left(rotArr, rotSize, positions)
       IN  rotArr' = r.a /\ rotOob' = r.oob
    /\ rotPos' = positions
    /\ rotOp' = "rotate_left"
    /\ rotPc' = "rotated"
    /\ UNCHANGED <<rotOld, rotSize, exceptRot>>

\* rotate_right(arr, size, positions).
RotateRight(positions) ==
    /\ rotPc = "ready"
    /\ LET r == rotate_right(rotArr, rotSize, positions)
       IN  rotArr' = r.a /\ rotOob' = r.oob
    /\ rotPos' = positions
    /\ rotOp' = "rotate_right"
    /\ rotPc' = "rotated"
    /\ UNCHANGED <<rotOld, rotSize, exceptRot>>

\* rotate_right by the same positions after a rotate_left.
RotateBack ==
    /\ rotPc = "rotated"
    /\ rotOp = "rotate_left"
    /\ LET r == rotate_right(rotArr, rotSize, rotPos)
       IN  rotArr' = r.a /\ rotOob' = (rotOob \/ r.oob)
    /\ rotPc' = "undone"
    /\ UNCHANGED <<rotOld, rotSize, rotPos, rotOp, exceptRot>>

NextRot ==
    \/ \E positions \in 0..MaxPositions : RotateLeft(positions)
    \/ \E positions \in 0..MaxPositions : RotateRight(positions)
    \/ RotateBack

RotInit == InitRot /\ IdleExceptRot

SpecRot == RotInit /\ [][NextRot]_vars

\* Element i (0-based) of storage a.
At(a, i) == a[i + 1]

\* C19: for size >= 1 and positions >= 0, rotate_left gives
\* new[i] == old[(i + positions) mod size] and rotate_right gives
\* new[(i + positions) mod size] == old[i] for every i in 0..size-1, on the
\* temporary-buffer path and on the three-reversal path alike; rotate_right by
\* k undoes rotate_left by k; with size == 0 nothing is touched; and no element
\* outside arr[0..size-1] or the buffer is touched.
C19_Rotations ==
    /\ ~rotOob
    /\ \A i \in rotSize..(RotStorage - 1) : At(rotArr, i) = At(rotOld, i)
    /\ (rotPc = "rotated" /\ rotOp = "rotate_left") =>
          \A i \in 0..(rotSize - 1) : At(rotArr, i) = At(rotOld, (i + rotPos) % rotSize)
    /\ (rotPc = "rotated" /\ rotOp = "rotate_right") =>
          \A i \in 0..(rotSize - 1) : At(rotArr, (i + rotPos) % rotSize) = At(rotOld, i)
    /\ rotPc = "undone" => rotArr = rotOld

\* A left rotation of six distinct elements by 4, which is more than the
\* buffer holds, so by three reversals.
C19_Witness ==
    /\ rotPc = "rotated"
    /\ rotOp = "rotate_left"
    /\ rotSize = 6
    /\ rotPos = 4
    /\ UseReversal(rotPos % rotSize)
    /\ rotOld = [i \in 1..RotStorage |-> 10 * i]
    /\ SubSeq(rotArr, 1, 6) = <<50, 60, 10, 20, 30, 40>>

=============================================================================
